---- MODULE Spec2Model ----
(***************************************************************************)
(* Roundtable council orchestrator (CouncilOrchestrator.run and the        *)
(* SessionRecorder it drives), modelled as a state machine.                *)
(*                                                                         *)
(* Member ids and phase ids are naturals whose numeric order stands for    *)
(* the lexicographic order of the id strings (localeCompare); 0 stands for *)
(* "undefined".  A model response is a record [k, s, n]:                   *)
(*   k = "JSON"        text from which a JSON object was extracted,        *)
(*   k = "UNPARSEABLE" text without a parseable JSON object,               *)
(*   k = "TRANSPORT"   completeText rejected (network/auth/provider),      *)
(* s names the content of the JSON object and n its numeric content.       *)
(***************************************************************************)
EXTENDS Integers, Sequences, FiniteSets, TLC

VARIABLES
    cfg,            \* CouncilConfig (immutable after load)
    oracle,         \* answers the member models may give, per stage
    options,        \* SessionRunOptions
    pc,             \* position of run()
    events,         \* SessionRecorder.events
    eventCounter,   \* run(): let eventCounter
    state,          \* RuntimeState {phase, turnIndex}
    fan,            \* the outstanding model calls of the current step
    leaderId,
    phaseResults,
    nextPhaseId,
    priorPhaseResolution,
    forcedStopReason,
    loc,            \* locals of runDeliberationPhase
    motion,         \* the motion under consideration
    motionsCalled,  \* number of makeId("motion") calls so far
    summary,        \* terminalResult and leaderSummary
    doc,            \* locals of runDocumentationApprovalLoop
    files,          \* artifacts written by writeFile
    out,            \* recordSession / finalize / return value of run()
    refLog,         \* the event list of the run in which every call of a
                    \* fan-out completes in member order
    probe,          \* arguments and result of a function applied on its own
    memory,         \* MemoryStore: the MEMORY.json of the members and COUNCIL.json
    recorder        \* SessionRecorder with the files it flushes to

vars == <<cfg, oracle, options, pc, events, eventCounter, state, fan, leaderId,
          phaseResults, nextPhaseId, priorPhaseResolution, forcedStopReason,
          loc, motion, motionsCalled, summary, doc, files, out, refLog, probe,
          memory, recorder>>

\* the variables a session of the orchestrator leaves alone
aside == <<probe, memory, recorder>>

\* the variables of a session of the orchestrator
session == <<cfg, oracle, options, pc, events, eventCounter, state, fan, leaderId,
             phaseResults, nextPhaseId, priorPhaseResolution, forcedStopReason,
             loc, motion, motionsCalled, summary, doc, files, out, refLog>>

----------------------------------------------------------------------------
(* Bounds of the model *)

\* the member models call at most this many motions in one session
MaxMotions == 1

\* longest transitions list given to resolveNextPhaseTransition on its own
MaxTransitions == 2

\* largest number of ballots given to computeVotePass on its own
MaxBallots == 5

\* sessions recorded one after the other by the same memory store
MaxSessions == 82

----------------------------------------------------------------------------
(* Sequence helpers *)

Range(s) == {s[i] : i \in 1..Len(s)}

IndexOf(s, x) == CHOOSE i \in 1..Len(s) : s[i] = x

\* Array.prototype.filter
RECURSIVE Filter(_, _)
Filter(s, keep) ==
    IF s = <<>> THEN <<>>
    ELSE (IF Head(s) \in keep THEN <<Head(s)>> ELSE <<>>) \o Filter(Tail(s), keep)

\* number of positions of s whose element lies in the set S
Count(s, S) == Cardinality({i \in 1..Len(s) : s[i] \in S})

----------------------------------------------------------------------------
(* Configuration *)

NoResolution == [kind |-> "", ref |-> 0]

FallbackResolution(phaseId) == [kind |-> "fallback", ref |-> phaseId]

Transition(to, when, priority) == [to |-> to, when |-> when, priority |-> priority]

\* councilSessionPhaseSchema with its defaults
PhaseDefaults(id, maxRounds) ==
    [id |-> id,
     governance |-> [requireSeconding |-> TRUE,
                     majorityThreshold |-> [num |-> 1, den |-> 2],
                     abstainCountsAsNo |-> TRUE],
     stopConditions |-> [maxRounds |-> maxRounds, endOnMajorityVote |-> TRUE],
     memoryPolicy |-> [readMemberMemory |-> TRUE, writeMemberMemory |-> TRUE,
                       writeCouncilMemory |-> TRUE],
     fallback |-> [resolution |-> FallbackResolution(id), action |-> "END_SESSION",
                   transitionToPhaseId |-> 0],
     transitions |-> <<>>]

ConfigDefaults ==
    [members |-> <<1, 2, 3>>,
     turnOrder |-> <<>>,
     sessionPolicy |-> [entryPhaseId |-> 1, maxPhaseTransitions |-> 12],
     phases |-> <<PhaseDefaults(1, 1)>>,
     output |-> [type |-> "none"],
     documentationReview |-> [maxRevisionRounds |-> 2],
     execution |-> [requireHumanApproval |-> TRUE]]

MemberIds(c) == Range(c.members)

PhaseIds(c) == {c.phases[i].id : i \in 1..Len(c.phases)}

\* the phases reachable from entryPhaseId (the stack walk of assertGraphIntegrity)
RECURSIVE Reachable(_, _)
Reachable(c, seen) ==
    LET next == {q \in PhaseIds(c) : \E i \in 1..Len(c.phases) :
                    /\ c.phases[i].id \in seen
                    /\ \/ \E j \in 1..Len(c.phases[i].transitions) :
                             c.phases[i].transitions[j].to = q
                       \/ /\ c.phases[i].fallback.action = "TRANSITION"
                          /\ c.phases[i].fallback.transitionToPhaseId = q}
    IN IF next \subseteq seen THEN seen ELSE Reachable(c, seen \cup next)

\* only the entry phase is looked at
AllPhasesReachable_entryOnly(c) == c.sessionPolicy.entryPhaseId \in PhaseIds(c)

\* assertGraphIntegrity: unreachable.length = 0
AllPhasesReachable(c) == Reachable(c, {c.sessionPolicy.entryPhaseId}) = PhaseIds(c)

\* loadConfig accepts c: the schema bounds and assertGraphIntegrity
assertGraphIntegrity(c) ==
    /\ Len(c.members) >= 3
    /\ Len(c.members) % 2 = 1
    /\ Cardinality(MemberIds(c)) = Len(c.members)
    /\ c.turnOrder # <<>> =>
          /\ Len(c.turnOrder) = Len(c.members)
          /\ Range(c.turnOrder) = MemberIds(c)
    /\ Len(c.phases) >= 1
    /\ Cardinality(PhaseIds(c)) = Len(c.phases)
    /\ c.sessionPolicy.entryPhaseId \in PhaseIds(c)
    /\ c.sessionPolicy.maxPhaseTransitions >= 1
    /\ c.documentationReview.maxRevisionRounds >= 0
    /\ \A i \in 1..Len(c.phases) :
          LET p == c.phases[i] IN
          /\ p.stopConditions.maxRounds >= 1
          /\ p.governance.majorityThreshold.num > 0
          /\ p.governance.majorityThreshold.num <= p.governance.majorityThreshold.den
          /\ \A j \in 1..Len(p.transitions) :
                /\ p.transitions[j].to \in PhaseIds(c)
                /\ p.transitions[j].priority >= 0
          /\ p.fallback.action = "TRANSITION" => p.fallback.transitionToPhaseId \in PhaseIds(c)
          /\ p.fallback.action = "END_SESSION" => p.fallback.transitionToPhaseId = 0
    /\ AllPhasesReachable(c)

\* the configured turnOrder is ignored
resolveTurnOrder_declaration(c) == c.members

\* CouncilOrchestrator.resolveTurnOrder
resolveTurnOrder(c) == IF c.turnOrder # <<>> THEN c.turnOrder ELSE c.members

\* CouncilOrchestrator.requirePhase
requirePhase(c, phaseId) ==
    c.phases[CHOOSE i \in 1..Len(c.phases) : c.phases[i].id = phaseId]

----------------------------------------------------------------------------
(* Model client and response normalizers *)

NoRaw == [k |-> "", s |-> "", n |-> 0]

Json(s, n) == [k |-> "JSON", s |-> s, n |-> n]

Unparseable == [k |-> "UNPARSEABLE", s |-> "", n |-> 0]

TransportError == [k |-> "TRANSPORT", s |-> "", n |-> 0]

\* the envelope completeJsonSafe substitutes for a JsonResponseParseError
ParseErrorEnvelope == [k |-> "ENVELOPE", s |-> "json_parse_error", n |-> 0]

\* every failure of the call, the transport's included, is reported as a
\* JsonResponseParseError
completeJson_wrapAll(raw) ==
    IF raw.k \in {"TRANSPORT", "UNPARSEABLE"}
    THEN [threw |-> "JsonResponseParseError", value |-> NoRaw]
    ELSE [threw |-> "", value |-> raw]

\* modelClient.completeJson: the text of completeText, extracted and parsed
completeJson(raw) ==
    IF raw.k = "TRANSPORT" THEN [threw |-> "Error", value |-> NoRaw]
    ELSE IF raw.k = "UNPARSEABLE" THEN [threw |-> "JsonResponseParseError", value |-> NoRaw]
    ELSE [threw |-> "", value |-> raw]

\* the parse error is passed on to the caller like any other error
completeJsonSafe_rethrow(raw) == completeJson(raw)

\* CouncilOrchestrator.completeJsonSafe
completeJsonSafe(raw) ==
    LET r == completeJson(raw) IN
    IF r.threw = "JsonResponseParseError"
    THEN [threw |-> "", value |-> ParseErrorEnvelope]
    ELSE r

\* prompts.getParseErrorMessage (defined or not)
getParseErrorMessage(value) == value.k = "ENVELOPE" /\ value.s = "json_parse_error"

normalizeTurnAction(value) ==
    IF getParseErrorMessage(value)
    THEN [action |-> "PASS", reason |-> "Model JSON parse error"]
    ELSE IF value.s = "CONTRIBUTE" THEN [action |-> "CONTRIBUTE", reason |-> ""]
    ELSE IF value.s = "PASS" THEN [action |-> "PASS", reason |-> "given"]
    ELSE IF value.s = "CALL_VOTE" THEN [action |-> "CALL_VOTE", reason |-> ""]
    ELSE [action |-> "PASS", reason |-> "Invalid response format from model."]

normalizeSecondingResponse(value) ==
    IF getParseErrorMessage(value)
    THEN [second |-> FALSE, rationale |-> "Model JSON parse error"]
    ELSE IF value.s \notin {"true", "false"}
    THEN [second |-> FALSE, rationale |-> "Invalid response format."]
    ELSE [second |-> (value.s = "true"), rationale |-> "given"]

normalizeVoteResponse(value) ==
    IF getParseErrorMessage(value)
    THEN [ballot |-> "ABSTAIN", rationale |-> "Model JSON parse error"]
    ELSE IF value.s \notin {"YES", "NO", "ABSTAIN"}
    THEN [ballot |-> "ABSTAIN", rationale |-> "Invalid response format."]
    ELSE [ballot |-> value.s, rationale |-> "given"]

\* memberIds is the declaration-ordered member list (the Set's insertion order)
normalizeLeaderElectionBallot(value, memberIds) ==
    IF getParseErrorMessage(value)
    THEN [candidateId |-> memberIds[1], rationale |-> "Model JSON parse error"]
    ELSE IF value.s # "candidate" \/ value.n \notin Range(memberIds)
    THEN [candidateId |-> memberIds[1],
          rationale |-> "Invalid candidate. Defaulted to first member."]
    ELSE [candidateId |-> value.n, rationale |-> "given"]

\* a summary that cannot be read is taken to ask for execution
normalizeLeaderSummary_fallbackExecutes(value, fallbackResolution) ==
    IF getParseErrorMessage(value) \/ value.s = "invalid"
    THEN [finalResolution |-> fallbackResolution, requiresExecution |-> TRUE,
          executionBrief |-> TRUE, fallback |-> "parse_error"]
    ELSE [finalResolution |-> IF value.n = 1 THEN [kind |-> "leader", ref |-> 0]
                              ELSE fallbackResolution,
          requiresExecution |-> (value.s \in {"exec", "execNoBrief"}),
          executionBrief |-> (value.s \in {"exec", "briefOnly"}),
          fallback |-> ""]

normalizeLeaderSummary(value, fallbackResolution) ==
    IF getParseErrorMessage(value)
    THEN [finalResolution |-> fallbackResolution, requiresExecution |-> FALSE,
          executionBrief |-> FALSE, fallback |-> "parse_error"]
    ELSE IF value.s = "invalid"
    THEN [finalResolution |-> fallbackResolution, requiresExecution |-> FALSE,
          executionBrief |-> FALSE, fallback |-> "no_summary"]
    ELSE [finalResolution |-> IF value.n = 1 THEN [kind |-> "leader", ref |-> 0]
                              ELSE fallbackResolution,
          requiresExecution |-> (value.s \in {"exec", "execNoBrief"}),
          executionBrief |-> (value.s \in {"exec", "briefOnly"}),
          fallback |-> ""]

\* CouncilOrchestrator.normalizeDocumentFeedback: B0 for a value that is not
\* an object; otherwise the well-formed blockers, at most five of them (an
\* object without a criticalBlockers array, the envelope included, has none)
normalizeDocumentFeedback(value, memberId) ==
    IF value.k \notin {"JSON", "ENVELOPE"}
    THEN [memberId |-> memberId, criticalBlockers |-> <<"B0">>]
    ELSE [memberId |-> memberId,
          criticalBlockers |-> [i \in 1..(IF value.n > 5 THEN 5 ELSE value.n) |-> "B"]]

----------------------------------------------------------------------------
(* Events *)

NoPayload ==
    [passId |-> 0, motionId |-> 0, action |-> "", reason |-> "", second |-> FALSE,
     ballot |-> "", rationale |-> "", passed |-> FALSE, yesVotes |-> 0,
     noVotesEffective |-> 0, totalCouncilSize |-> 0, endedBy |-> "",
     resolution |-> NoResolution, candidateId |-> 0, revision |-> 0,
     approved |-> FALSE, voteType |-> "", secondedBy |-> 0, requiresExecution |-> FALSE,
     criticalBlockerCount |-> 0, documentationApproved |-> "null"]

\* the arguments of one appendEvent call, with the phase tag current at the call
Item(type, round, actorId, phase, payload) ==
    [type |-> type, round |-> round, actorId |-> actorId, phase |-> phase,
     payload |-> payload]

\* the id is taken from a counter that is not advanced
NextEventId_stale(counter, i) == counter + 1

\* run(): eventCounter += 1 before the i-th appended event
NextEventId(counter, i) == counter + i

\* run(): appendEvent, followed by SessionRecorder.appendEvent (events.push)
appendEvent(log, counter, turnIndex, items) ==
    log \o [i \in 1..Len(items) |->
              [id |-> NextEventId(counter, i),
               phase |-> items[i].phase,
               type |-> items[i].type,
               round |-> items[i].round,
               turnIndex |-> turnIndex,
               actorId |-> items[i].actorId,
               payload |-> items[i].payload]]

\* s with x inserted so that it becomes element number at
InsertAt(s, at, x) ==
    [i \in 1..(Len(s) + 1) |->
        IF i < at THEN s[i] ELSE IF i = at THEN x ELSE s[i - 1]]

Renumber(s) == [i \in 1..Len(s) |-> [s[i] EXCEPT !.id = i]]

TypesOf(log) == [i \in 1..Len(log) |-> log[i].type]

----------------------------------------------------------------------------
(* Fan-outs: the model calls issued by one Promise.all (or one single call) *)

NoFan == [kind |-> "", members |-> <<>>, pending |-> {}, raw |-> <<>>, snap |-> 0]

\* the calls of kind `kind` to `members`, all issued in one synchronous pass
\* over a transcript of snap events
StartFan(kind, members, snap) ==
    [kind |-> kind, members |-> members, pending |-> Range(members),
     raw |-> [i \in 1..Len(members) |-> NoRaw], snap |-> snap]

\* the call to member m has returned raw
Returned(f, m, raw) ==
    [f EXCEPT !.pending = @ \ {m}, !.raw[IndexOf(f.members, m)] = raw]

RawOf(f, m) == f.raw[IndexOf(f.members, m)]

\* the call to m may return now: any outstanding call may, unless the oracle
\* answers the calls of this kind in the order in which they were issued
MayReturn(f, m, inOrder) ==
    /\ m \in f.pending
    /\ f.kind \in inOrder =>
          \A i \in 1..(IndexOf(f.members, m) - 1) : f.members[i] \notin f.pending

\* members of the fan-out that follow m and whose worker has appended its event
EmittedAfter(f, m) ==
    Cardinality({i \in (IndexOf(f.members, m) + 1)..Len(f.members) :
                    f.raw[i].k \in {"JSON", "UNPARSEABLE"}})

----------------------------------------------------------------------------
(* State changes shared by the steps *)

\* appendEvent calls made by run() itself, between fan-outs
Emit(items, turnIndex) ==
    /\ events' = appendEvent(events, eventCounter, turnIndex, items)
    /\ eventCounter' = eventCounter + Len(items)
    /\ refLog' = appendEvent(refLog, Len(refLog), turnIndex, items)

\* appendEvent called by the worker of member m inside a fan-out
EmitFromWorker(item, m) ==
    /\ events' = appendEvent(events, eventCounter, state.turnIndex, <<item>>)
    /\ eventCounter' = eventCounter + 1
    /\ refLog' = Renumber(InsertAt(refLog, Len(refLog) + 1 - EmittedAfter(fan, m),
                    appendEvent(<<>>, 0, state.turnIndex, <<item>>)[1]))

\* a model call threw a non-parse error: run() rejects
Reject == pc' = "rejected"

NoLoc ==
    [phaseId |-> 0, closed |-> FALSE, endedBy |-> "", finalResolution |-> NoResolution,
     winningMotion |-> 0, roundsCompleted |-> 0, round |-> 0, speakerIx |-> 0]

NoMotion == [motionId |-> 0, calledBy |-> 0, round |-> 0, turnIndex |-> 0]

NoSummary ==
    [terminalResult |-> [endedBy |-> "", finalResolution |-> NoResolution,
                         winningMotion |-> 0],
     promptEndedBy |-> "", promptResolution |-> NoResolution,
     totalRoundsExecuted |-> 0,
     leaderSummary |-> [finalResolution |-> NoResolution, requiresExecution |-> FALSE,
                        executionBrief |-> FALSE, fallback |-> ""]]

NoDoc == [revision |-> 0, draft |-> 0, latestFeedback |-> <<>>,
          approved |-> FALSE, outputDocumentFile |-> ""]

NoSessionJson ==
    [written |-> FALSE, phasesRun |-> 0, transitionLimitReached |-> FALSE, endedBy |-> "",
     finalResolution |-> NoResolution, winningMotion |-> 0,
     documentationApproved |-> "null"]

NoResult == [returned |-> FALSE, endedBy |-> "", finalResolution |-> NoResolution,
             documentationApproved |-> "undefined", executionApproved |-> FALSE]

\* no session planned for the memory store
NoPlan == [first |-> "", second |-> "", switchAt |-> 0]

\* the memory directory before MemoryStore.init: no MEMORY.json, no COUNCIL.json
NoMemory ==
    [initialised |-> FALSE, sessions |-> 0, plan |-> NoPlan, members |-> <<>>,
     council |-> <<>>]

\* no SessionRecorder in use
NoRecorder == [mode |-> ""]

NoOut == [recordSession |-> FALSE, sessionJson |-> NoSessionJson, result |-> NoResult]

----------------------------------------------------------------------------
(* MemoryStore: what recordSession does to MEMORY.json and COUNCIL.json.     *)
(* A timestamp is the number of the session in which nowIso() was called; a  *)
(* record's summary is represented by the record's id.                       *)

MEMBER_RECORD_LIMIT == 80

SESSION_DIGEST_LIMIT == 40

PROMPT_CONTEXT_SESSION_WINDOW == 25

COUNCIL_SESSION_LIMIT == 50

COUNCIL_RECORD_LIMIT == 80

\* Array.prototype.slice(0, n)
SliceHead(s, n) == SubSeq(s, 1, IF Len(s) < n THEN Len(s) ELSE n)

\* Array.prototype.slice(-n)
SliceTail(s, n) == SubSeq(s, IF Len(s) > n THEN Len(s) - n + 1 ELSE 1, Len(s))

\* Op applied to the value of v, which is computed once however often Op
\* uses it
ApplyTo(v, Op(_)) == CHOOSE r \in {Op(x) : x \in {v}} : TRUE

\* the values of a Map filled by set(key, value) over the sequence s: one
\* entry per key at the place of the key's first occurrence, holding the
\* value of its last occurrence
MapValues(s, Key(_)) ==
    ApplyTo(s, LAMBDA seq :
        LET first(i) == \A j \in 1..(i - 1) : Key(seq[j]) # Key(seq[i])
            last(i) == CHOOSE j \in i..Len(seq) :
                          /\ Key(seq[j]) = Key(seq[i])
                          /\ \A k \in (j + 1)..Len(seq) : Key(seq[k]) # Key(seq[i])
        IN ApplyTo(SelectSeq([i \in 1..Len(seq) |-> i], first), LAMBDA firsts :
               [k \in 1..Len(firsts) |-> seq[last(firsts[k])]]))

RecordId(prefix, sessionId, memberId) ==
    [prefix |-> prefix, sessionId |-> sessionId, memberId |-> memberId]

EvidenceRef(sessionId, eventType, artifactPath) ==
    [sessionId |-> sessionId, eventType |-> eventType, artifactPath |-> artifactPath]

MemoryRecord(id, kind, status, importance, now, evidence) ==
    [id |-> id, kind |-> kind, status |-> status, summary |-> id,
     importance |-> importance, createdAt |-> now, updatedAt |-> now,
     evidence |-> evidence]

\* keyFor of mergeEvidence: all the fields of the reference
EvidenceKey(item) == item

\* MemoryStore.mergeEvidence
mergeEvidence(previous, incoming) ==
    SliceTail(MapValues(previous \o incoming, EvidenceKey), 8)

\* MemoryStore.upsertRecord
upsertRecord(records, incoming) ==
    ApplyTo(records, LAMBDA existing :
        IF \E i \in 1..Len(existing) : existing[i].id = incoming.id
        THEN LET index == CHOOSE i \in 1..Len(existing) :
                              /\ existing[i].id = incoming.id
                              /\ \A j \in 1..(i - 1) : existing[j].id # incoming.id
                 previous == existing[index]
             IN [existing EXCEPT ![index] =
                    [incoming EXCEPT !.createdAt = previous.createdAt,
                                     !.evidence = mergeEvidence(previous.evidence,
                                                                incoming.evidence)]]
        ELSE Append(existing, incoming))

\* the comparator of pruneRecords: importance descending, then updatedAt
\* descending
compareRecords(a, b) ==
    IF a.importance # b.importance THEN b.importance - a.importance
    ELSE b.updatedAt - a.updatedAt

\* the sorted sequence with x put behind the elements that do not come after it
InsertSorted(sorted, x) ==
    ApplyTo(sorted, LAMBDA before :
        LET p == Cardinality({j \in 1..Len(before) : compareRecords(before[j], x) <= 0})
        IN SubSeq(before, 1, p) \o <<x>> \o SubSeq(before, p + 1, Len(before)))

\* the records from the i-th on, inserted one by one into the sorted ones
RECURSIVE InsertFrom(_, _, _)
InsertFrom(sorted, records, i) ==
    IF i > Len(records) \/ Len(sorted) < 0 THEN sorted
    ELSE InsertFrom(InsertSorted(sorted, records[i]), records, i + 1)

\* Array.prototype.sort with compareRecords (a stable sort)
sortRecords(records) == ApplyTo(records, LAMBDA unsorted : InsertFrom(<<>>, unsorted, 1))

RecordKey(record) == record.id

\* MemoryStore.pruneRecords
pruneRecords(records, limit) ==
    SliceHead(sortRecords(MapValues(records, RecordKey)), limit)

\* String.includes("json parse error") on the lower-cased reason: of the
\* reasons normalizeTurnAction gives, only the parse fallback's has it
IncludesJsonParseError(reason) == reason = "Model JSON parse error"

\* MemoryStore.countParseFallbacks; memberId 0 stands for no member given
countParseFallbacks(evts, memberId) ==
    ApplyTo(evts, LAMBDA log :
        Cardinality({i \in 1..Len(log) :
            /\ log[i].type = "TURN_ACTION"
            /\ memberId # 0 => log[i].actorId = memberId
            /\ log[i].payload.action = "PASS"
            /\ IncludesJsonParseError(log[i].payload.reason)}))

\* the pick of buildPromptContext
PickSummaries(scopedRecords, kind, limit) ==
    LET wanted(record) == record.kind = kind /\ record.status = "active"
        picked == SliceHead(SelectSeq(scopedRecords, wanted), limit)
    IN [i \in 1..Len(picked) |-> picked[i].summary]

\* every retained record is in scope, whatever its sessions
ScopedRecords_all(records, recentSessions) == records

\* buildPromptContext: the records with no evidence or with evidence in one
\* of the sessions of the window
ScopedRecords(records, recentSessions) ==
    LET activeSessionIds ==
            {d.sessionId : d \in Range(SliceHead(recentSessions,
                                                 PROMPT_CONTEXT_SESSION_WINDOW))}
        inScope(record) ==
            \/ Len(record.evidence) = 0
            \/ \E i \in 1..Len(record.evidence) :
                  record.evidence[i].sessionId \in activeSessionIds
    IN SelectSeq(records, inScope)

\* MemoryStore.buildPromptContext
buildPromptContext(records, recentSessions) ==
    ApplyTo(ScopedRecords(records, recentSessions), LAMBDA scopedRecords :
    [constraints |-> PickSummaries(scopedRecords, "constraint", 4),
     keyDecisions |-> PickSummaries(scopedRecords, "decision", 5),
     topRisks |-> SliceHead(PickSummaries(scopedRecords, "risk_pattern", 3)
                            \o PickSummaries(scopedRecords, "assumption", 2), 4),
     openLoops |-> PickSummaries(scopedRecords, "open_loop", 4),
     preferences |-> PickSummaries(scopedRecords, "preference", 3),
     antiPatterns |-> PickSummaries(scopedRecords, "lesson", 3)])

\* the seed written by ensureMemberFiles / returned by readMemberMemoryJson
SeedMemberMemory(memberId) ==
    [memberId |-> memberId, records |-> <<>>,
     promptContext |-> [constraints |-> <<>>, keyDecisions |-> <<>>, topRisks |-> <<>>,
                        openLoops |-> <<>>, preferences |-> <<>>, antiPatterns |-> <<>>],
     recentSessions |-> <<>>, updatedAt |-> 0]

\* the seed written by ensureCouncilFiles
SeedCouncilMemory ==
    [globalDecisions |-> <<>>, crossAgentLessons |-> <<>>, sessions |-> <<>>,
     updatedAt |-> 0]

\* if (parseFallbackCount > 0) of applySessionToMemberMemory
HasParseFallback(input, memberId) == countParseFallbacks(input.events, memberId) > 0

\* MemoryStore.applySessionToMemberMemory, with now = nowIso()
applySessionToMemberMemory(mem, memberId, input, now) ==
    LET sid == input.sessionId
        r1 == upsertRecord(mem.records,
                  MemoryRecord(RecordId("decision", sid, 0), "decision", "active", 5, now,
                      <<EvidenceRef(sid, "LEADER_SUMMARY", "leader-summary.md")>>))
        r2 == upsertRecord(r1,
                  MemoryRecord(RecordId("outcome", sid, memberId), "outcome", "active", 3,
                      now, <<EvidenceRef(sid, "MESSAGE_CONTRIBUTED", "")>>))
        r3 == IF HasParseFallback(input, memberId)
              THEN upsertRecord(r2,
                       MemoryRecord(RecordId("risk_pattern:parse_fallback", 0, memberId),
                           "risk_pattern", "active", 4, now,
                           <<EvidenceRef(sid, "TURN_ACTION", "")>>))
              ELSE r2
        r4 == IF input.endedBy = "ROUND_LIMIT"
              THEN upsertRecord(r3,
                       MemoryRecord(RecordId("open_loop:consensus", sid, 0), "open_loop",
                           "active", 4, now,
                           <<EvidenceRef(sid, "ROUND_LIMIT_REACHED", "")>>))
              ELSE r3
        r5 == IF input.requiresExecution
              THEN upsertRecord(r4,
                       MemoryRecord(RecordId("open_loop:execution", sid, 0), "open_loop",
                           IF input.executionApproved THEN "resolved" ELSE "active", 5, now,
                           <<EvidenceRef(sid, "SESSION_CLOSED", "execution-handoff.json")>>))
              ELSE r4
        keepOthers(d) == d.sessionId # sid
        recentSessions ==
            SliceHead(<<[sessionId |-> sid, timestamp |-> now]>>
                      \o SelectSeq(mem.recentSessions, keepOthers), SESSION_DIGEST_LIMIT)
        compactRecords == pruneRecords(r5, MEMBER_RECORD_LIMIT)
    IN [mem EXCEPT !.records = compactRecords,
                   !.promptContext = buildPromptContext(compactRecords, recentSessions),
                   !.recentSessions = recentSessions,
                   !.updatedAt = now]

\* MemoryStore.applySessionToCouncilMemory, with now = nowIso()
applySessionToCouncilMemory(council, input, now) ==
    LET sid == input.sessionId
        globalDecisions ==
            upsertRecord(council.globalDecisions,
                MemoryRecord(RecordId("decision", sid, 0), "decision", "active", 5, now,
                    <<EvidenceRef(sid, "LEADER_SUMMARY", "leader-summary.md")>>))
        crossAgentLessons ==
            IF countParseFallbacks(input.events, 0) > 0
            THEN upsertRecord(council.crossAgentLessons,
                     MemoryRecord(RecordId("lesson:json_parse_fallback", 0, 0), "lesson",
                         "active", 4, now, <<EvidenceRef(sid, "TURN_ACTION", "")>>))
            ELSE council.crossAgentLessons
        keepOthers(d) == d.sessionId # sid
        sessions ==
            SliceHead(<<[sessionId |-> sid, timestamp |-> now]>>
                      \o SelectSeq(council.sessions, keepOthers), COUNCIL_SESSION_LIMIT)
    IN [council EXCEPT
           !.globalDecisions = pruneRecords(globalDecisions, COUNCIL_RECORD_LIMIT),
           !.crossAgentLessons = pruneRecords(crossAgentLessons, COUNCIL_RECORD_LIMIT),
           !.sessions = sessions,
           !.updatedAt = now]

\* MemoryStore.init: ensureCouncilFiles and ensureMemberFiles seed the files
\* that do not exist and rewrite those that do
MemoryStoreInit(store, memberIds) ==
    [store EXCEPT
        !.initialised = TRUE,
        !.members = [m \in memberIds |->
                        IF store.initialised /\ m \in DOMAIN store.members
                        THEN store.members[m] ELSE SeedMemberMemory(m)],
        !.council = IF store.initialised THEN store.council ELSE SeedCouncilMemory]

\* MemoryStore.readMemberMemory: the prompt snapshot rendered from the stored
\* MEMORY.json (its promptContext and its five newest session digests)
readMemberMemory(store, memberId) ==
    LET m == store.members[memberId]
    IN [memberId |-> m.memberId, updatedAt |-> m.updatedAt,
        promptContext |-> m.promptContext,
        recentSessions |-> SubSeq(m.recentSessions, 1,
                                  IF Len(m.recentSessions) > 5 THEN 5
                                  ELSE Len(m.recentSessions))]

\* MemoryStore.recordSession: every member's MEMORY.json, then COUNCIL.json
recordSession(store, input, now) ==
    [store EXCEPT
        !.sessions = @ + 1,
        !.members = [m \in DOMAIN @ |->
                        applySessionToMemberMemory(@[m], m, input, now)],
        !.council = applySessionToCouncilMemory(@, input, now)]

----------------------------------------------------------------------------
(* SessionRecorder: the event list in memory and events.json on disk *)

\* an appendEvent call of one caller: the stage of its flush and the events
\* array as serialised when writeFile was called
NoCall == [stage |-> "idle", snapshot |-> <<>>]

\* the stages in which a writeFile of events.json is in flight
WritingStages == {"open", "write"}

\* the file after writeFile has written data at offset 0 of what it holds:
\* shorter data leaves the tail of the longer content behind it
Overlay(data, file) ==
    IF Len(data) >= Len(file.content)
    THEN [content |-> data, torn |-> FALSE]
    ELSE [content |-> file.content, torn |-> TRUE]

\* SessionRecorder.appendEvent up to the await inside flush: the event is
\* pushed and writeFile is called with the serialised array
recorderAppendEvent(rec, caller, event) ==
    [rec EXCEPT !.events = Append(@, event),
                !.calls[caller] = [stage |-> "open",
                                   snapshot |-> Append(rec.events, event)],
                !.overlapped = @ \/ \E other \in DOMAIN rec.calls :
                                        /\ other # caller
                                        /\ rec.calls[other].stage \in WritingStages]

\* writeFile of flush opens events.json with flag 'w': the file is truncated
OpenEventsFile(caller) ==
    /\ pc = "recording"
    /\ recorder.calls[caller].stage = "open"
    /\ recorder' = [recorder EXCEPT !.calls[caller].stage = "write",
                                    !.eventsFile = [content |-> <<>>, torn |-> FALSE]]
    /\ UNCHANGED <<session, probe, memory>>

\* writeFile of flush writes its data
WriteEventsFile(caller) ==
    /\ pc = "recording"
    /\ recorder.calls[caller].stage = "write"
    /\ recorder' = [recorder EXCEPT
                        !.calls[caller].stage = "close",
                        !.eventsFile = Overlay(recorder.calls[caller].snapshot, @)]
    /\ UNCHANGED <<session, probe, memory>>

\* the rest of flush (the file is closed, the transcript written) and the
\* return of appendEvent to its caller
CompleteAppend(caller) ==
    /\ pc = "recording"
    /\ recorder.calls[caller].stage = "close"
    /\ recorder' = [recorder EXCEPT !.calls[caller].stage = "done"]
    /\ UNCHANGED <<session, probe, memory>>

\* run(): await appendEvent("SESSION_STARTED", ...)
RunAppendsStart ==
    /\ pc = "recording"
    /\ recorder.mode = "starting"
    /\ recorder.calls[0].stage = "idle"
    /\ recorder' = recorderAppendEvent(recorder, 0, [type |-> "SESSION_STARTED", actorId |-> 0])
    /\ UNCHANGED <<session, probe, memory>>

\* electLeader: Promise.all issues one model call per member
ElectionFansOut ==
    /\ pc = "recording"
    /\ recorder.mode = "starting"
    /\ recorder.calls[0].stage = "done"
    /\ recorder' = [recorder EXCEPT
                        !.mode = "electing",
                        !.calls = [c \in DOMAIN @ |->
                                      IF c = 0 THEN NoCall
                                      ELSE [stage |-> "calling", snapshot |-> <<>>]]]
    /\ UNCHANGED <<session, probe, memory>>

\* electLeader: the worker of member m resumes and awaits
\* appendEvent("LEADER_ELECTION_BALLOT", ...)
WorkerAppendsBallot(m) ==
    /\ pc = "recording"
    /\ recorder.mode = "electing"
    /\ recorder.calls[m].stage = "calling"
    /\ recorder' = recorderAppendEvent(recorder, m,
                                [type |-> "LEADER_ELECTION_BALLOT", actorId |-> m])
    /\ UNCHANGED <<session, probe, memory>>

\* electLeader after Promise.all: await appendEvent("LEADER_ELECTED", ...)
RunAppendsElected ==
    /\ pc = "recording"
    /\ recorder.mode = "electing"
    /\ \A m \in Range(cfg.members) : recorder.calls[m].stage = "done"
    /\ recorder' = [recorderAppendEvent(recorder, 0, [type |-> "LEADER_ELECTED", actorId |-> 0])
                       EXCEPT !.mode = "elected"]
    /\ UNCHANGED <<session, probe, memory>>

----------------------------------------------------------------------------
(* main(): loadConfig, then the orchestrator is built and run *)

\* main() up to new CouncilOrchestrator(config): loadConfig either returns the
\* config or throws a config validation error, which ends the process
LoadConfig ==
    /\ pc = "loading"
    /\ pc' = IF assertGraphIntegrity(cfg) THEN "start" ELSE "configError"
    /\ UNCHANGED <<aside, cfg, oracle, options, events, eventCounter, state, fan, leaderId,
                   phaseResults, nextPhaseId, priorPhaseResolution, forcedStopReason,
                   loc, motion, motionsCalled, summary, doc, files, out, refLog>>

----------------------------------------------------------------------------
(* run(): session start and leader election *)

TurnOrder == resolveTurnOrder(cfg)

\* run() up to the first model call: memoryStore.init, SESSION_STARTED, then electLeader issues
\* one leader-election call per member
StartSession ==
    /\ pc = "start"
    /\ Emit(<<Item("SESSION_STARTED", 0, 0, state.phase, NoPayload)>>, state.turnIndex)
    /\ fan' = StartFan("leader_election", cfg.members, Len(events) + 1)
    /\ pc' = "electing"
    /\ memory' = MemoryStoreInit(memory, Range(cfg.members))
    /\ UNCHANGED <<probe, recorder, cfg, oracle, options, state, leaderId, phaseResults,
                   nextPhaseId, priorPhaseResolution, forcedStopReason, loc, motion,
                   motionsCalled, summary, doc, files, out>>

\* electLeader: the worker of member m resumes with the answer raw
ElectionBallotReturns(m, raw) ==
    /\ fan.kind = "leader_election"
    /\ MayReturn(fan, m, oracle.inOrder)
    /\ fan' = Returned(fan, m, raw)
    /\ IF completeJsonSafe(raw).threw # ""
       THEN /\ Reject
            /\ UNCHANGED <<events, eventCounter, refLog>>
       ELSE /\ LET normalized == normalizeLeaderElectionBallot(
                                     completeJsonSafe(raw).value, cfg.members)
               IN EmitFromWorker(
                     Item("LEADER_ELECTION_BALLOT", 0, m, state.phase,
                          [NoPayload EXCEPT !.candidateId = normalized.candidateId,
                                            !.rationale = normalized.rationale]), m)
            /\ UNCHANGED pc
    /\ UNCHANGED <<aside, cfg, oracle, options, state, leaderId, phaseResults, nextPhaseId,
                   priorPhaseResolution, forcedStopReason, loc, motion, motionsCalled,
                   summary, doc, files, out>>

\* the ballots of the election, in the order of the Promise.all result
ElectionBallots(f) ==
    [i \in 1..Len(f.members) |->
        normalizeLeaderElectionBallot(completeJsonSafe(f.raw[i]).value, cfg.members).candidateId]

\* ties go to the largest candidate id
ElectionWinner_largestId(ballots) ==
    CHOOSE w \in Range(ballots) :
        \A c \in Range(ballots) :
            \/ Count(ballots, {w}) > Count(ballots, {c})
            \/ Count(ballots, {w}) = Count(ballots, {c}) /\ w >= c

\* electLeader: ranked[0] after the sort by (votes desc, candidateId asc)
ElectionWinner(ballots) ==
    CHOOSE w \in Range(ballots) :
        \A c \in Range(ballots) :
            \/ Count(ballots, {w}) > Count(ballots, {c})
            \/ Count(ballots, {w}) = Count(ballots, {c}) /\ w <= c

\* electLeader after Promise.all resolved: tally and LEADER_ELECTED
ElectLeader ==
    /\ pc = "electing"
    /\ fan.pending = {}
    /\ LET winner == ElectionWinner(ElectionBallots(fan)) IN
       /\ Emit(<<Item("LEADER_ELECTED", 0, winner, state.phase,
                      [NoPayload EXCEPT !.candidateId = winner])>>, state.turnIndex)
       /\ leaderId' = winner
    /\ nextPhaseId' = cfg.sessionPolicy.entryPhaseId
    /\ pc' = "phaseLoop"
    /\ UNCHANGED <<aside, cfg, oracle, options, state, fan, phaseResults,
                   priorPhaseResolution, forcedStopReason, loc, motion, motionsCalled,
                   summary, doc, files, out>>

----------------------------------------------------------------------------
(* Vote arithmetic and phase transitions *)

\* no special case for the threshold 0.5
requiredYesVotes_ceil(total, t) == (total * t.num + t.den - 1) \div t.den

\* majorityThreshold === 0.5 ? Math.floor(total / 2) + 1
\*                           : Math.ceil(total * majorityThreshold)
requiredYesVotes(total, t) ==
    IF 2 * t.num = t.den
    THEN (total \div 2) + 1
    ELSE (total * t.num + t.den - 1) \div t.den

\* only the NO ballots are counted, whatever abstainCountsAsNo says
noVotesEffective_ballotsOnly(ballots, governance) == Count(ballots, {"NO"})

\* governance.abstainCountsAsNo ? total - yesVotes
\*                              : ballots.filter((ballot) => ballot === "NO").length
noVotesEffective(ballots, governance) ==
    IF governance.abstainCountsAsNo
    THEN Len(ballots) - Count(ballots, {"YES"})
    ELSE Count(ballots, {"NO"})

\* the tally taken over the ballots that express a choice instead of over all
computeVotePass_returned(ballots, governance) ==
    LET total == Count(ballots, {"YES", "NO"})
        yesVotes == Count(ballots, {"YES"})
        t == governance.majorityThreshold
        required ==
            IF 2 * t.num = t.den
            THEN (total \div 2) + 1
            ELSE (total * t.num + t.den - 1) \div t.den
    IN [passed |-> yesVotes >= required,
        yesVotes |-> yesVotes,
        noVotesEffective |-> IF governance.abstainCountsAsNo
                             THEN total - yesVotes
                             ELSE Count(ballots, {"NO"})]

\* CouncilOrchestrator.computeVotePass
computeVotePass(ballots, governance) ==
    LET total == Len(ballots)
        yesVotes == Count(ballots, {"YES"})
    IN [passed |-> yesVotes >= requiredYesVotes(total, governance.majorityThreshold),
        yesVotes |-> yesVotes,
        noVotesEffective |-> noVotesEffective(ballots, governance)]

\* Number.MAX_SAFE_INTEGER, as the largest integer of the model
MAX_SAFE_INTEGER == 2147483647

NoTransition == [to |-> 0, when |-> "", priority |-> 0]

\* the comparator of the sort: priority, then a.to.localeCompare(b.to)
compareTransitions(a, b) ==
    IF a.priority = b.priority
    THEN IF a.to < b.to THEN -1 ELSE IF a.to > b.to THEN 1 ELSE 0
    ELSE a.priority - b.priority

\* Array.prototype.sort with compareTransitions: stable
RECURSIVE sortTransitions(_)
sortTransitions(ts) ==
    IF ts = <<>> THEN <<>>
    ELSE LET rest == sortTransitions(SubSeq(ts, 1, Len(ts) - 1))
             t == ts[Len(ts)]
             k == Cardinality({i \in 1..Len(rest) : compareTransitions(rest[i], t) <= 0})
         IN SubSeq(rest, 1, k) \o <<t>> \o SubSeq(rest, k + 1, Len(rest))

\* the fallback transition is taken whatever ended the phase
resolveNextPhaseTransition_anyEnding(phaseConfig, endedBy) ==
    LET trigger == IF endedBy = "MAJORITY_VOTE" THEN "MAJORITY_VOTE" ELSE "ROUND_LIMIT"
        candidates == sortTransitions(
            SelectSeq(phaseConfig.transitions,
                      LAMBDA t : t.when = "ALWAYS" \/ t.when = trigger))
    IN IF Len(candidates) > 0
       THEN candidates[1]
       ELSE IF /\ phaseConfig.fallback.action = "TRANSITION"
               /\ phaseConfig.fallback.transitionToPhaseId # 0
       THEN [to |-> phaseConfig.fallback.transitionToPhaseId, when |-> "ROUND_LIMIT",
             priority |-> MAX_SAFE_INTEGER]
       ELSE NoTransition

\* CouncilOrchestrator.resolveNextPhaseTransition
resolveNextPhaseTransition(phaseConfig, endedBy) ==
    LET trigger == IF endedBy = "MAJORITY_VOTE" THEN "MAJORITY_VOTE" ELSE "ROUND_LIMIT"
        candidates == sortTransitions(
            SelectSeq(phaseConfig.transitions,
                      LAMBDA t : t.when = "ALWAYS" \/ t.when = trigger))
    IN IF Len(candidates) > 0
       THEN candidates[1]
       ELSE IF /\ endedBy = "ROUND_LIMIT"
               /\ phaseConfig.fallback.action = "TRANSITION"
               /\ phaseConfig.fallback.transitionToPhaseId # 0
       THEN [to |-> phaseConfig.fallback.transitionToPhaseId, when |-> "ROUND_LIMIT",
             priority |-> MAX_SAFE_INTEGER]
       ELSE NoTransition

----------------------------------------------------------------------------
(* run(): phase sequencing *)

PhaseConfig == requirePhase(cfg, loc.phaseId)

\* the guard compares with > and lets one more phase run
TransitionLimitReached_offByOne ==
    Len(phaseResults) > cfg.sessionPolicy.maxPhaseTransitions

\* phaseResults.length >= this.config.sessionPolicy.maxPhaseTransitions
TransitionLimitReached ==
    Len(phaseResults) >= cfg.sessionPolicy.maxPhaseTransitions

\* while (nextPhaseId): the guard lets the phase run; runDeliberationPhase starts
EnterPhase ==
    /\ pc = "phaseLoop"
    /\ nextPhaseId # 0
    /\ ~TransitionLimitReached
    /\ Emit(<<Item("PASS_STARTED", 0, 0, state.phase,
                   [NoPayload EXCEPT !.passId = nextPhaseId,
                                     !.resolution = priorPhaseResolution])>>,
            state.turnIndex)
    /\ loc' = [phaseId |-> nextPhaseId, closed |-> FALSE, endedBy |-> "ROUND_LIMIT",
               finalResolution |-> requirePhase(cfg, nextPhaseId).fallback.resolution,
               winningMotion |-> 0, roundsCompleted |-> 0, round |-> 1, speakerIx |-> 0]
    /\ pc' = "roundLoop"
    /\ UNCHANGED <<aside, cfg, oracle, options, state, fan, leaderId, phaseResults, nextPhaseId,
                   priorPhaseResolution, forcedStopReason, motion, motionsCalled,
                   summary, doc, files, out>>

\* while (nextPhaseId): phaseResults.length >= maxPhaseTransitions, break
StopAtTransitionLimit ==
    /\ pc = "phaseLoop"
    /\ nextPhaseId # 0
    /\ TransitionLimitReached
    /\ forcedStopReason' = [kind |-> "maxPhaseTransitions", ref |-> nextPhaseId]
    /\ pc' = "afterPhases"
    /\ UNCHANGED <<aside, cfg, oracle, options, events, eventCounter, state, fan, leaderId,
                   phaseResults, nextPhaseId, priorPhaseResolution, loc, motion,
                   motionsCalled, summary, doc, files, out, refLog>>

\* the round loop runs until the phase is closed by a vote
RoundLoopContinues_untilClosed == ~loc.closed

\* for (round = 1; round <= maxRounds; round += 1) { if (closed) break; ...
RoundLoopContinues ==
    loc.round <= PhaseConfig.stopConditions.maxRounds /\ ~loc.closed

\* runDeliberationPhase: the round loop enters a round
StartRound ==
    /\ pc = "roundLoop"
    /\ RoundLoopContinues
    /\ Emit(<<Item("ROUND_STARTED", loc.round, 0, state.phase,
                   [NoPayload EXCEPT !.passId = loc.phaseId])>>, state.turnIndex)
    /\ loc' = [loc EXCEPT !.roundsCompleted = loc.round, !.speakerIx = 1]
    /\ pc' = "turnLoop"
    /\ UNCHANGED <<aside, cfg, oracle, options, state, fan, leaderId, phaseResults, nextPhaseId,
                   priorPhaseResolution, forcedStopReason, motion, motionsCalled,
                   summary, doc, files, out>>

\* the test after the round loop is inverted
RoundLimitReached_whenClosed == loc.closed

\* if (!closed) after the round loop
RoundLimitReached == ~loc.closed

\* a phase that ran into its round limit reports the limit only
PhaseClosingEvents_limitOnly ==
    IF RoundLimitReached
    THEN <<Item("ROUND_LIMIT_REACHED", loc.roundsCompleted, 0, state.phase,
                [NoPayload EXCEPT !.passId = loc.phaseId,
                                  !.resolution = PhaseConfig.fallback.resolution])>>
    ELSE <<Item("PASS_COMPLETED", loc.roundsCompleted, 0, state.phase,
                [NoPayload EXCEPT !.passId = loc.phaseId,
                                  !.endedBy = loc.endedBy,
                                  !.resolution = loc.finalResolution,
                                  !.motionId = loc.winningMotion])>>

\* if (endedBy === "ROUND_LIMIT") ROUND_LIMIT_REACHED; then PASS_COMPLETED
PhaseClosingEvents ==
    (IF RoundLimitReached
     THEN <<Item("ROUND_LIMIT_REACHED", loc.roundsCompleted, 0, state.phase,
                 [NoPayload EXCEPT !.passId = loc.phaseId,
                                   !.resolution = PhaseConfig.fallback.resolution])>>
     ELSE <<>>)
    \o <<Item("PASS_COMPLETED", loc.roundsCompleted, 0, state.phase,
              [NoPayload EXCEPT !.passId = loc.phaseId,
                                !.endedBy = loc.endedBy,
                                !.resolution = loc.finalResolution,
                                !.motionId = loc.winningMotion])>>

\* runDeliberationPhase after the round loop, and the rest of the while body
CompletePhase ==
    /\ pc = "roundLoop"
    /\ ~RoundLoopContinues
    /\ Emit(PhaseClosingEvents, state.turnIndex)
    /\ phaseResults' = Append(phaseResults,
          [phaseId |-> loc.phaseId, endedBy |-> loc.endedBy,
           finalResolution |-> loc.finalResolution, winningMotion |-> loc.winningMotion,
           roundsCompleted |-> loc.roundsCompleted])
    /\ LET transition == resolveNextPhaseTransition(PhaseConfig, loc.endedBy) IN
       IF transition.to = 0
       THEN /\ pc' = "afterPhases"
            /\ UNCHANGED <<priorPhaseResolution, nextPhaseId>>
       ELSE /\ priorPhaseResolution' = loc.finalResolution
            /\ nextPhaseId' = transition.to
            /\ pc' = "phaseLoop"
    /\ UNCHANGED <<aside, cfg, oracle, options, state, fan, leaderId, forcedStopReason, loc,
                   motion, motionsCalled, summary, doc, files, out>>

----------------------------------------------------------------------------
(* runDeliberationPhase: turns and the motion sub-machine *)

Speaker == TurnOrder[loc.speakerIx]

\* the transcript is taken once per round, when the round starts
TurnTranscript_ofRoundStart ==
    CHOOSE i \in 1..Len(events) :
        /\ events[i].type = "ROUND_STARTED"
        /\ \A j \in (i + 1)..Len(events) : events[j].type # "ROUND_STARTED"

\* recorder.getTranscript() in buildTurnPrompt: the events appended so far
TurnTranscript == Len(events)

\* reading a member's memory writes the file back with a new timestamp
BeginTurn_rewritesMemory ==
    /\ pc = "turnLoop"
    /\ loc.speakerIx <= Len(TurnOrder)
    /\ ~loc.closed
    /\ state' = [phase |-> "DISCUSSION", turnIndex |-> state.turnIndex + 1]
    /\ fan' = StartFan("turn_action", <<Speaker>>, TurnTranscript)
    /\ pc' = "awaitTurn"
    /\ memory' = [memory EXCEPT !.members[Speaker].updatedAt = state.turnIndex + 1]
    /\ UNCHANGED <<probe, recorder, cfg, oracle, options, events, eventCounter, leaderId, phaseResults,
                   nextPhaseId, priorPhaseResolution, forcedStopReason, loc, motion,
                   motionsCalled, summary, doc, files, out, refLog>>

\* for (const speakerId of turnOrder): the next speaker's turn prompt is built
\* from the transcript so far and the turn-action call is issued
BeginTurn ==
    /\ pc = "turnLoop"
    /\ loc.speakerIx <= Len(TurnOrder)
    /\ ~loc.closed
    /\ state' = [phase |-> "DISCUSSION", turnIndex |-> state.turnIndex + 1]
    /\ fan' = StartFan("turn_action", <<Speaker>>, TurnTranscript)
    /\ pc' = "awaitTurn"
    /\ UNCHANGED <<aside, cfg, oracle, options, events, eventCounter, leaderId, phaseResults,
                   nextPhaseId, priorPhaseResolution, forcedStopReason, loc, motion,
                   motionsCalled, summary, doc, files, out, refLog>>

\* the speaker loop is exhausted, or left by `if (closed) break`
EndRound ==
    /\ pc = "turnLoop"
    /\ (loc.speakerIx > Len(TurnOrder) \/ loc.closed)
    /\ loc' = [loc EXCEPT !.round = @ + 1]
    /\ pc' = "roundLoop"
    /\ UNCHANGED <<aside, cfg, oracle, options, events, eventCounter, state, fan, leaderId,
                   phaseResults, nextPhaseId, priorPhaseResolution, forcedStopReason,
                   motion, motionsCalled, summary, doc, files, out, refLog>>

\* the caller is asked to second the motion too
nonCallerIds_everyone(turnOrder, speakerId) == turnOrder

\* turnOrder.filter((id) => id !== speaker.id)
nonCallerIds(turnOrder, speakerId) == Filter(turnOrder, Range(turnOrder) \ {speakerId})

\* the caller of the motion is not asked for a ballot
StartMotionVote_nonCallers(snap) ==
    StartFan("motion_vote", nonCallerIds(TurnOrder, Speaker), snap)

\* the vote fan-out of runDeliberationPhase: one vote prompt per member
StartMotionVote(snap) == StartFan("motion_vote", TurnOrder, snap)

\* the speaker's turn-action call returns raw: TURN_ACTION and what follows it
\* up to the next model call
TurnActionReturns(raw) ==
    /\ pc = "awaitTurn"
    /\ raw.s = "CALL_VOTE" => motionsCalled < oracle.maxMotions
    /\ LET r == completeJsonSafe(raw)
           action == normalizeTurnAction(r.value)
           turnAction == Item("TURN_ACTION", loc.round, Speaker, state.phase,
                              [NoPayload EXCEPT !.passId = loc.phaseId,
                                                !.action = action.action,
                                                !.reason = action.reason])
           newMotion == [motionId |-> motionsCalled + 1, calledBy |-> Speaker,
                         round |-> loc.round, turnIndex |-> state.turnIndex]
       IN
       IF r.threw # ""
       THEN /\ Reject
            /\ fan' = Returned(fan, Speaker, raw)
            /\ UNCHANGED <<events, eventCounter, refLog, state, loc, motion, motionsCalled>>
       ELSE IF action.action \in {"CONTRIBUTE", "PASS"}
       THEN /\ Emit(<<turnAction,
                      Item(IF action.action = "CONTRIBUTE" THEN "MESSAGE_CONTRIBUTED"
                           ELSE "PASS_RECORDED",
                           loc.round, Speaker, state.phase,
                           [NoPayload EXCEPT !.passId = loc.phaseId,
                                             !.reason = action.reason])>>,
                    state.turnIndex)
            /\ fan' = Returned(fan, Speaker, raw)
            /\ loc' = [loc EXCEPT !.speakerIx = @ + 1]
            /\ pc' = "turnLoop"
            /\ UNCHANGED <<state, motion, motionsCalled>>
       ELSE /\ Emit(<<turnAction,
                      Item("MOTION_CALLED", loc.round, Speaker, state.phase,
                           [NoPayload EXCEPT !.passId = loc.phaseId,
                                             !.motionId = newMotion.motionId,
                                             !.resolution = [kind |-> "decision",
                                                             ref |-> newMotion.motionId]])>>,
                    state.turnIndex)
            /\ motion' = newMotion
            /\ motionsCalled' = motionsCalled + 1
            /\ IF PhaseConfig.governance.requireSeconding
               THEN /\ state' = [state EXCEPT !.phase = "SECONDING"]
                    /\ fan' = StartFan("motion_seconding",
                                       nonCallerIds(TurnOrder, Speaker),
                                       Len(events) + 2)
                    /\ pc' = "seconding"
               ELSE /\ state' = [state EXCEPT !.phase = "VOTING"]
                    /\ fan' = StartMotionVote(Len(events) + 2)
                    /\ pc' = "voting"
            /\ UNCHANGED loc
    /\ UNCHANGED <<aside, cfg, oracle, options, leaderId, phaseResults, nextPhaseId,
                   priorPhaseResolution, forcedStopReason, summary, doc, files, out>>

\* the worker appends the VOTE_CAST event itself, as the election workers do
PairReturns_emitInWorker(m, raw) ==
    /\ fan.kind \in {"motion_seconding", "motion_vote", "document_approval_vote"}
    /\ MayReturn(fan, m, oracle.inOrder)
    /\ fan' = Returned(fan, m, raw)
    /\ IF completeJsonSafe(raw).threw # ""
       THEN /\ Reject
            /\ UNCHANGED <<events, eventCounter, refLog>>
       ELSE /\ UNCHANGED pc
            /\ IF fan.kind = "motion_seconding"
               THEN UNCHANGED <<events, eventCounter, refLog>>
               ELSE EmitFromWorker(
                       Item("VOTE_CAST", loc.round, m, state.phase,
                            [NoPayload EXCEPT
                                !.motionId = IF fan.kind = "motion_vote"
                                             THEN motion.motionId ELSE 0,
                                !.voteType = IF fan.kind = "motion_vote"
                                             THEN "" ELSE "DOCUMENT_APPROVAL",
                                !.revision = IF fan.kind = "motion_vote"
                                             THEN 0 ELSE doc.revision,
                                !.ballot = normalizeVoteResponse(
                                               completeJsonSafe(raw).value).ballot]), m)
    /\ UNCHANGED <<aside, cfg, oracle, options, state, leaderId,
                   phaseResults, nextPhaseId, priorPhaseResolution, forcedStopReason,
                   loc, motion, motionsCalled, summary, doc, files, out>>

\* a seconding or ballot call of the current fan-out returns raw to its worker,
\* which normalizes it and returns the pair to Promise.all
PairReturns(m, raw) ==
    /\ fan.kind \in {"motion_seconding", "motion_vote", "document_approval_vote"}
    /\ MayReturn(fan, m, oracle.inOrder)
    /\ fan' = Returned(fan, m, raw)
    /\ IF completeJsonSafe(raw).threw # "" THEN Reject ELSE UNCHANGED pc
    /\ UNCHANGED <<aside, cfg, oracle, options, events, eventCounter, state, leaderId,
                   phaseResults, nextPhaseId, priorPhaseResolution, forcedStopReason,
                   loc, motion, motionsCalled, summary, doc, files, out, refLog>>

\* the normalized seconding responses, in the order of the Promise.all result
SecondingPairs(f) ==
    [i \in 1..Len(f.members) |->
        [memberId |-> f.members[i],
         response |-> normalizeSecondingResponse(completeJsonSafe(f.raw[i]).value)]]

\* the normalized ballots, in the order of the Promise.all result
VotePairs(f) ==
    [i \in 1..Len(f.members) |->
        [memberId |-> f.members[i],
         vote |-> normalizeVoteResponse(completeJsonSafe(f.raw[i]).value)]]

\* the first responder is taken as the seconder, whatever the answer
FindSeconder_firstResponse(pairs) == pairs[1].memberId

\* secondingPairs.find((pair) => pair.response.second)?.memberId
FindSeconder(pairs) ==
    IF \E i \in 1..Len(pairs) : pairs[i].response.second
    THEN pairs[CHOOSE i \in 1..Len(pairs) :
                  /\ pairs[i].response.second
                  /\ \A j \in 1..(i - 1) : ~pairs[j].response.second].memberId
    ELSE 0

\* all seconding calls have returned: SECONDING_RESPONSE events, then the motion
\* is dropped or seconded and put to the vote
ResolveSeconding ==
    /\ pc = "seconding"
    /\ fan.pending = {}
    /\ LET pairs == SecondingPairs(fan)
           responses == [i \in 1..Len(pairs) |->
               Item("SECONDING_RESPONSE", loc.round, pairs[i].memberId, state.phase,
                    [NoPayload EXCEPT !.passId = loc.phaseId,
                                      !.second = pairs[i].response.second,
                                      !.rationale = pairs[i].response.rationale])]
           seconderId == FindSeconder(pairs)
       IN
       IF seconderId = 0
       THEN /\ Emit(responses \o
                    <<Item("MOTION_NOT_SECONDED", loc.round, 0, state.phase,
                           [NoPayload EXCEPT !.passId = loc.phaseId,
                                             !.motionId = motion.motionId])>>,
                    state.turnIndex)
            /\ state' = [state EXCEPT !.phase = "DISCUSSION"]
            /\ loc' = [loc EXCEPT !.speakerIx = @ + 1]
            /\ pc' = "turnLoop"
            /\ UNCHANGED fan
       ELSE /\ Emit(responses \o
                    <<Item("MOTION_SECONDED", loc.round, seconderId, state.phase,
                           [NoPayload EXCEPT !.passId = loc.phaseId,
                                             !.motionId = motion.motionId,
                                             !.secondedBy = seconderId])>>,
                    state.turnIndex)
            /\ state' = [state EXCEPT !.phase = "VOTING"]
            /\ fan' = StartMotionVote(Len(events) + Len(responses) + 1)
            /\ pc' = "voting"
            /\ UNCHANGED loc
    /\ UNCHANGED <<aside, cfg, oracle, options, leaderId, phaseResults, nextPhaseId,
                   priorPhaseResolution, forcedStopReason, motion, motionsCalled,
                   summary, doc, files, out>>

\* a passed vote closes the phase whatever endOnMajorityVote says
ClosesPhase_anyPass(passResult) == passResult.passed

\* if (passResult.passed && phaseConfig.stopConditions.endOnMajorityVote)
ClosesPhase(passResult) ==
    passResult.passed /\ PhaseConfig.stopConditions.endOnMajorityVote

\* all ballots have returned: VOTE_CAST events, tally, VOTE_RESULT, outcome
TallyMotionVote ==
    /\ pc = "voting"
    /\ fan.pending = {}
    /\ LET votePairs == VotePairs(fan)
           passResult == computeVotePass([i \in 1..Len(votePairs) |-> votePairs[i].vote.ballot],
                                         PhaseConfig.governance)
       IN
       /\ Emit([i \in 1..Len(votePairs) |->
                   Item("VOTE_CAST", loc.round, votePairs[i].memberId, state.phase,
                        [NoPayload EXCEPT !.passId = loc.phaseId,
                                          !.motionId = motion.motionId,
                                          !.ballot = votePairs[i].vote.ballot,
                                          !.rationale = votePairs[i].vote.rationale])]
               \o <<Item("VOTE_RESULT", loc.round, 0, state.phase,
                         [NoPayload EXCEPT !.passId = loc.phaseId,
                                           !.motionId = motion.motionId,
                                           !.passed = passResult.passed,
                                           !.yesVotes = passResult.yesVotes,
                                           !.noVotesEffective = passResult.noVotesEffective,
                                           !.totalCouncilSize = Len(TurnOrder)])>>,
               state.turnIndex)
       /\ loc' = IF ClosesPhase(passResult)
                 THEN [loc EXCEPT !.closed = TRUE, !.endedBy = "MAJORITY_VOTE",
                                  !.finalResolution = [kind |-> "decision",
                                                       ref |-> motion.motionId],
                                  !.winningMotion = motion.motionId,
                                  !.speakerIx = @ + 1]
                 ELSE [loc EXCEPT !.speakerIx = @ + 1]
    /\ state' = [state EXCEPT !.phase = "DISCUSSION"]
    /\ pc' = "turnLoop"
    /\ UNCHANGED <<aside, cfg, oracle, options, fan, leaderId, phaseResults, nextPhaseId,
                   priorPhaseResolution, forcedStopReason, motion, motionsCalled,
                   summary, doc, files, out>>

----------------------------------------------------------------------------
(* run(): leader summary *)

TextOk == [k |-> "TEXT", s |-> "", n |-> 0]

RECURSIVE SumRounds(_)
SumRounds(results) ==
    IF results = <<>> THEN 0
    ELSE Head(results).roundsCompleted + SumRounds(Tail(results))

File(name, n, content) == [name |-> name, n |-> n, content |-> content]

\* run() after the while loop: terminalResult, state.phase = CLOSED, and the
\* leader-summary call is issued
RequestLeaderSummary ==
    /\ pc = "afterPhases"
    /\ Len(phaseResults) > 0
    /\ LET latestPhase == phaseResults[Len(phaseResults)]
           terminalResult ==
               IF forcedStopReason.kind # ""
               THEN [endedBy |-> "ROUND_LIMIT", finalResolution |-> forcedStopReason,
                     winningMotion |-> latestPhase.winningMotion]
               ELSE [endedBy |-> latestPhase.endedBy,
                     finalResolution |-> latestPhase.finalResolution,
                     winningMotion |-> latestPhase.winningMotion]
       IN summary' = [summary EXCEPT !.terminalResult = terminalResult,
                                     !.promptEndedBy = terminalResult.endedBy,
                                     !.promptResolution = terminalResult.finalResolution,
                                     !.totalRoundsExecuted = SumRounds(phaseResults)]
    /\ state' = [state EXCEPT !.phase = "CLOSED"]
    /\ fan' = StartFan("leader_summary", <<leaderId>>, Len(events))
    /\ pc' = "awaitSummary"
    /\ UNCHANGED <<aside, cfg, oracle, options, events, eventCounter, leaderId, phaseResults,
                   nextPhaseId, priorPhaseResolution, forcedStopReason, loc, motion,
                   motionsCalled, doc, files, out, refLog>>

\* the leader-summary call returns raw: LEADER_SUMMARY, leader-summary.md, and
\* for output.type = documentation the first draft is requested
LeaderSummaryReturns(raw) ==
    /\ pc = "awaitSummary"
    /\ LET r == completeJsonSafe(raw)
           leaderSummary == normalizeLeaderSummary(r.value,
                                                   summary.terminalResult.finalResolution)
       IN
       IF r.threw # ""
       THEN /\ Reject
            /\ fan' = Returned(fan, leaderId, raw)
            /\ UNCHANGED <<events, eventCounter, refLog, summary, files>>
       ELSE /\ summary' = [summary EXCEPT !.leaderSummary = leaderSummary]
            /\ Emit(<<Item("LEADER_SUMMARY", summary.totalRoundsExecuted, leaderId,
                           state.phase,
                           [NoPayload EXCEPT !.resolution = leaderSummary.finalResolution,
                                             !.requiresExecution =
                                                 leaderSummary.requiresExecution])>>,
                    state.turnIndex)
            /\ files' = files \cup {File("leader-summary.md", 0, 0)}
            /\ IF cfg.output.type = "documentation"
               THEN /\ fan' = StartFan("documentation_output", <<leaderId>>, Len(events) + 1)
                    /\ pc' = "awaitDraft"
               ELSE /\ fan' = Returned(fan, leaderId, raw)
                    /\ pc' = "closing"
    /\ UNCHANGED <<aside, cfg, oracle, options, state, leaderId, phaseResults, nextPhaseId,
                   priorPhaseResolution, forcedStopReason, loc, motion, motionsCalled,
                   doc, out>>

----------------------------------------------------------------------------
(* runDocumentationApprovalLoop *)

DocumentVoteGovernance ==
    [requireSeconding |-> TRUE, majorityThreshold |-> [num |-> 1, den |-> 2],
     abstainCountsAsNo |-> TRUE]

\* head of the revision loop body for draft number `revision`: the draft file,
\* DOCUMENT_DRAFT_WRITTEN / DOCUMENT_REVISION_WRITTEN, then runDocumentApprovalVote
\* up to its Promise.all
WriteDraftAndCallVote(revision) ==
    /\ doc' = [doc EXCEPT !.revision = revision, !.draft = revision]
    /\ files' = files \cup {File("documentation.draft.md", revision, revision)}
    /\ Emit(<<Item(IF revision = 1 THEN "DOCUMENT_DRAFT_WRITTEN"
                   ELSE "DOCUMENT_REVISION_WRITTEN",
                   revision, leaderId, state.phase,
                   [NoPayload EXCEPT !.revision = revision]),
              Item("DOCUMENT_APPROVAL_VOTE_CALLED", revision, 0, "VOTING",
                   [NoPayload EXCEPT !.revision = revision,
                                     !.voteType = "DOCUMENT_APPROVAL"])>>,
            state.turnIndex)
    /\ state' = [state EXCEPT !.phase = "VOTING"]
    /\ fan' = StartFan("document_approval_vote", TurnOrder, Len(events) + 2)
    /\ pc' = "docVoting"

\* run(): OUTPUT_ARTIFACT_WRITTEN after the documentation loop returned
OutputArtifactWritten(approved) ==
    Item("OUTPUT_ARTIFACT_WRITTEN", summary.totalRoundsExecuted, leaderId, "DISCUSSION",
         [NoPayload EXCEPT !.approved = approved])

\* latestFeedback.flatMap(criticalBlockers): the number of unresolved blockers
RECURSIVE CountBlockers(_)
CountBlockers(feedback) ==
    IF feedback = <<>> THEN 0
    ELSE Len(Head(feedback).criticalBlockers) + CountBlockers(Tail(feedback))

\* the files written after the revision loop, for the draft in hand
UnapprovedFiles(draft) ==
    {File("documentation.unapproved.md", 0, draft),
     File("documentation.unresolved-blockers.json", 0, CountBlockers(doc.latestFeedback))}

\* the first draft is published instead of the draft voted on
ApprovedFiles_firstDraft == {File("documentation.md", 0, 1)}

\* writeFile(documentation.md, draft) after a passed vote
ApprovedFiles == {File("documentation.md", 0, doc.draft)}

\* the break comes one revision late
RevisionLimitReached_late ==
    doc.revision > cfg.documentationReview.maxRevisionRounds + 1

\* if (revision > maxRevisionRounds) break
RevisionLimitReached ==
    doc.revision > cfg.documentationReview.maxRevisionRounds

\* the leader's completeText for the first draft (awaitDraft) or for a revised
\* draft (awaitRevision) returns; the for-loop goes on while
\* revision <= maxRevisionRounds + 1
DocumentTextReturns(raw) ==
    /\ pc \in {"awaitDraft", "awaitRevision"}
    /\ IF raw.k = "TRANSPORT"
       THEN /\ Reject
            /\ fan' = Returned(fan, leaderId, raw)
            /\ UNCHANGED <<events, eventCounter, refLog, state, doc, files>>
       ELSE IF doc.revision + 1 <= cfg.documentationReview.maxRevisionRounds + 1
       THEN WriteDraftAndCallVote(doc.revision + 1)
       ELSE /\ files' = files \cup UnapprovedFiles(doc.revision + 1)
            /\ doc' = [doc EXCEPT !.draft = doc.revision + 1,
                                  !.approved = FALSE,
                                  !.outputDocumentFile = "documentation.unapproved.md"]
            /\ Emit(<<OutputArtifactWritten(FALSE)>>, state.turnIndex)
            /\ fan' = Returned(fan, leaderId, raw)
            /\ pc' = "closing"
            /\ UNCHANGED state
    /\ UNCHANGED <<aside, cfg, oracle, options, leaderId, phaseResults, nextPhaseId,
                   priorPhaseResolution, forcedStopReason, loc, motion, motionsCalled,
                   summary, out>>

\* only the members who voted NO are asked for feedback
ReviewerIds_noBallots(votePairs) ==
    Filter(TurnOrder,
           {votePairs[i].memberId : i \in
               {j \in 1..Len(votePairs) : votePairs[j].vote.ballot = "NO"}})

\* collectDocumentFeedback: votePairs.filter((pair) => pair.vote.ballot !== "YES")
\*                                   .map((pair) => pair.memberId)
ReviewerIds(votePairs) ==
    Filter(TurnOrder,
           {votePairs[i].memberId : i \in
               {j \in 1..Len(votePairs) : votePairs[j].vote.ballot # "YES"}})

\* all approval ballots have returned: VOTE_CAST events, tally,
\* DOCUMENT_APPROVAL_VOTE_RESULT, and the loop's reaction to the result
TallyDocumentVote ==
    /\ pc = "docVoting"
    /\ fan.pending = {}
    /\ LET votePairs == VotePairs(fan)
           passResult == computeVotePass([i \in 1..Len(votePairs) |-> votePairs[i].vote.ballot],
                                         DocumentVoteGovernance)
           voteEvents ==
               [i \in 1..Len(votePairs) |->
                   Item("VOTE_CAST", doc.revision, votePairs[i].memberId, state.phase,
                        [NoPayload EXCEPT !.voteType = "DOCUMENT_APPROVAL",
                                          !.revision = doc.revision,
                                          !.ballot = votePairs[i].vote.ballot,
                                          !.rationale = votePairs[i].vote.rationale])]
               \o <<Item("DOCUMENT_APPROVAL_VOTE_RESULT", doc.revision, 0, state.phase,
                         [NoPayload EXCEPT !.revision = doc.revision,
                                           !.passed = passResult.passed,
                                           !.yesVotes = passResult.yesVotes,
                                           !.noVotesEffective = passResult.noVotesEffective,
                                           !.totalCouncilSize = Len(TurnOrder)])>>
           reviewerIds == ReviewerIds(votePairs)
       IN
       /\ state' = [state EXCEPT !.phase = "DISCUSSION"]
       /\ IF passResult.passed
          THEN /\ files' = files \cup ApprovedFiles
               /\ doc' = [doc EXCEPT !.approved = TRUE,
                                     !.outputDocumentFile = "documentation.md"]
               /\ Emit(voteEvents \o <<OutputArtifactWritten(TRUE)>>, state.turnIndex)
               /\ pc' = "closing"
               /\ UNCHANGED fan
          ELSE IF RevisionLimitReached
          THEN /\ files' = files \cup UnapprovedFiles(doc.draft)
               /\ doc' = [doc EXCEPT !.approved = FALSE,
                                     !.outputDocumentFile = "documentation.unapproved.md"]
               /\ Emit(voteEvents \o <<OutputArtifactWritten(FALSE)>>, state.turnIndex)
               /\ pc' = "closing"
               /\ UNCHANGED fan
          ELSE /\ Emit(voteEvents, state.turnIndex)
               /\ fan' = StartFan("document_feedback", reviewerIds,
                                  Len(events) + Len(voteEvents))
               /\ pc' = "feedback"
               /\ UNCHANGED <<doc, files>>
    /\ UNCHANGED <<aside, cfg, oracle, options, leaderId, phaseResults, nextPhaseId,
                   priorPhaseResolution, forcedStopReason, loc, motion, motionsCalled,
                   summary, out>>

\* collectDocumentFeedback: the worker of reviewer m resumes with the answer raw
FeedbackReturns(m, raw) ==
    /\ fan.kind = "document_feedback"
    /\ MayReturn(fan, m, oracle.inOrder)
    /\ fan' = Returned(fan, m, raw)
    /\ IF completeJsonSafe(raw).threw # ""
       THEN /\ Reject
            /\ UNCHANGED <<events, eventCounter, refLog>>
       ELSE /\ LET normalized == normalizeDocumentFeedback(completeJsonSafe(raw).value, m)
               IN EmitFromWorker(
                     Item("DOCUMENT_FEEDBACK_SUBMITTED", doc.revision, m, state.phase,
                          [NoPayload EXCEPT !.revision = doc.revision,
                                            !.criticalBlockerCount =
                                                Len(normalized.criticalBlockers)]), m)
            /\ UNCHANGED pc
    /\ UNCHANGED <<aside, cfg, oracle, options, state, leaderId, phaseResults, nextPhaseId,
                   priorPhaseResolution, forcedStopReason, loc, motion, motionsCalled,
                   summary, doc, files, out>>

\* all feedback calls have returned: the review file is written and the leader
\* is asked for the revised draft
RequestRevision ==
    /\ pc = "feedback"
    /\ fan.pending = {}
    /\ LET feedback == [i \in 1..Len(fan.members) |->
               normalizeDocumentFeedback(completeJsonSafe(fan.raw[i]).value, fan.members[i])]
       IN /\ doc' = [doc EXCEPT !.latestFeedback = feedback]
          /\ files' = files \cup {File("documentation.review.json", doc.revision,
                                       CountBlockers(feedback))}
    /\ fan' = StartFan("documentation_revision", <<leaderId>>, Len(events))
    /\ pc' = "awaitRevision"
    /\ UNCHANGED <<aside, cfg, oracle, options, events, eventCounter, state, leaderId,
                   phaseResults, nextPhaseId, priorPhaseResolution, forcedStopReason,
                   loc, motion, motionsCalled, summary, out, refLog>>

----------------------------------------------------------------------------
(* run(): execution handoff and finalization *)

\* only the flag of the invocation counts
executionApproved_flagOnly == options.approveExecution

executionApproved == ~cfg.execution.requireHumanApproval \/ options.approveExecution

\* the outcome of the review is not carried over
documentationApproved_unset == "undefined"

\* let documentationApproved: boolean | undefined, assigned docOutcome.approved
\* for output.type = documentation
documentationApproved ==
    IF cfg.output.type # "documentation" THEN "undefined"
    ELSE IF doc.approved THEN "true" ELSE "false"

\* documentationApproved ?? null
OrNull(v) == IF v = "undefined" THEN "null" ELSE v

\* the execution handoff file, if any, and SESSION_CLOSED
CloseSession ==
    /\ pc = "closing"
    /\ files' = IF /\ summary.leaderSummary.requiresExecution
                   /\ summary.leaderSummary.executionBrief
                THEN files \cup {File("execution-handoff.json",
                                      summary.terminalResult.winningMotion,
                                      IF executionApproved THEN 1 ELSE 0)}
                ELSE files
    /\ Emit(<<Item("SESSION_CLOSED", summary.totalRoundsExecuted, 0, state.phase,
                   [NoPayload EXCEPT !.endedBy = summary.terminalResult.endedBy,
                                     !.resolution = summary.leaderSummary.finalResolution,
                                     !.requiresExecution =
                                         summary.leaderSummary.requiresExecution,
                                     !.approved = executionApproved,
                                     !.documentationApproved =
                                         OrNull(documentationApproved)])>>,
            state.turnIndex)
    /\ pc' = "memory"
    /\ UNCHANGED <<aside, cfg, oracle, options, state, fan, leaderId, phaseResults, nextPhaseId,
                   priorPhaseResolution, forcedStopReason, loc, motion, motionsCalled,
                   summary, doc, out>>

\* memory is written only when every completed phase asks for it
shouldWriteMemory_everyPhase ==
    \A i \in 1..Len(phaseResults) :
        LET phase == requirePhase(cfg, phaseResults[i].phaseId) IN
        phase.memoryPolicy.writeCouncilMemory \/ phase.memoryPolicy.writeMemberMemory

shouldWriteMemory ==
    \E i \in 1..Len(phaseResults) :
        LET phase == requirePhase(cfg, phaseResults[i].phaseId) IN
        phase.memoryPolicy.writeCouncilMemory \/ phase.memoryPolicy.writeMemberMemory

\* the RecordSessionInput run() hands to the memory store; the session of a
\* run has the id 1
RecordSessionInput ==
    [sessionId |-> 1,
     endedBy |-> summary.terminalResult.endedBy,
     events |-> events,
     requiresExecution |-> summary.leaderSummary.requiresExecution,
     executionApproved |-> executionApproved]

\* memoryStore.recordSession, when some completed phase asks for memory writes
RecordSession ==
    /\ pc = "memory"
    /\ out' = [out EXCEPT !.recordSession = shouldWriteMemory]
    /\ memory' = IF shouldWriteMemory THEN recordSession(memory, RecordSessionInput, 1)
                  ELSE memory
    /\ pc' = "finalizing"
    /\ UNCHANGED <<probe, recorder, cfg, oracle, options, events, eventCounter, state, fan, leaderId,
                   phaseResults, nextPhaseId, priorPhaseResolution, forcedStopReason,
                   loc, motion, motionsCalled, summary, doc, files, refLog>>

\* recorder.finalize writes session.json; run() returns the SessionResult
FinalizeSession ==
    /\ pc = "finalizing"
    /\ out' = [out EXCEPT
          !.sessionJson = [written |-> TRUE,
                           phasesRun |-> Len(phaseResults),
                           transitionLimitReached |-> (forcedStopReason.kind # ""),
                           endedBy |-> summary.terminalResult.endedBy,
                           finalResolution |-> summary.leaderSummary.finalResolution,
                           winningMotion |-> summary.terminalResult.winningMotion,
                           documentationApproved |-> OrNull(documentationApproved)],
          !.result = [returned |-> TRUE,
                      endedBy |-> summary.terminalResult.endedBy,
                      finalResolution |-> summary.leaderSummary.finalResolution,
                      documentationApproved |-> documentationApproved,
                      executionApproved |-> executionApproved]]
    /\ pc' = "returned"
    /\ UNCHANGED <<aside, cfg, oracle, options, events, eventCounter, state, fan, leaderId,
                   phaseResults, nextPhaseId, priorPhaseResolution, forcedStopReason,
                   loc, motion, motionsCalled, summary, doc, files, refLog>>

----------------------------------------------------------------------------
(* Configurations and model behaviours explored *)

\* every member model answers well-formed JSON and agrees; the calls of a
\* leader-election fan-out return in the order in which they were issued
QuietOracle ==
    [election |-> {Json("candidate", 1)},
     turn |-> {Json("PASS", 0)},
     second |-> {Json("true", 0)},
     vote |-> {Json("YES", 0)},
     summary |-> {Json("noexec", 0)},
     text |-> {TextOk},
     docvote |-> {Json("YES", 0)},
     feedback |-> {Json("feedback", 1)},
     inOrder |-> {"leader_election"},
     maxMotions |-> MaxMotions]

\* leader election with arbitrary ballots, declaration order 2, 3, 1
ElectionScenario ==
    [cfg |-> [ConfigDefaults EXCEPT !.members = <<2, 3, 1>>],
     oracle |-> [QuietOracle EXCEPT
                    !.election = {Json("candidate", 1), Json("candidate", 3),
                                  Json("candidate", 7), Unparseable, TransportError},
                    !.inOrder = {}],
     options |-> [approveExecution |-> FALSE]]

\* one phase with motions, seconding and blind votes
MotionScenario ==
    [cfg |-> [ConfigDefaults EXCEPT !.turnOrder = <<3, 1, 2>>],
     oracle |-> [QuietOracle EXCEPT
                    !.turn = {Json("CONTRIBUTE", 0), Json("CALL_VOTE", 0)},
                    !.second = {Json("true", 0), Json("false", 0)},
                    !.vote = {Json("YES", 0), Json("NO", 0), Unparseable}],
     options |-> [approveExecution |-> FALSE]]

\* seconding responses answered well or badly; the ballots return in order
SecondingScenario ==
    [cfg |-> ConfigDefaults,
     oracle |-> [QuietOracle EXCEPT
                    !.turn = {Json("PASS", 0), Json("CALL_VOTE", 0), Unparseable},
                    !.second = {Json("true", 0), Json("false", 0), Json("invalid", 0),
                                Unparseable},
                    !.vote = {Json("YES", 0), Json("invalid", 0)},
                    !.inOrder = {"leader_election", "motion_vote"}],
     options |-> [approveExecution |-> FALSE]]

\* two rounds of turns answered well or badly, no motion
FallbackScenario ==
    [cfg |-> [ConfigDefaults EXCEPT !.phases = <<PhaseDefaults(1, 2)>>],
     oracle |-> [QuietOracle EXCEPT
                    !.turn = {Json("PASS", 0), Json("invalid", 0), Unparseable,
                              TransportError}],
     options |-> [approveExecution |-> FALSE]]

\* a cyclic phase graph cut by maxPhaseTransitions; the ballots return in order
GraphScenario ==
    [cfg |-> [ConfigDefaults EXCEPT
                 !.sessionPolicy = [entryPhaseId |-> 2, maxPhaseTransitions |-> 2],
                 !.phases = <<
                     [PhaseDefaults(2, 1) EXCEPT
                         !.governance.requireSeconding = FALSE,
                         !.transitions = <<Transition(1, "MAJORITY_VOTE", 1),
                                           Transition(2, "ALWAYS", 5)>>],
                     [PhaseDefaults(1, 1) EXCEPT
                         !.governance.requireSeconding = FALSE,
                         !.memoryPolicy = [readMemberMemory |-> FALSE,
                                           writeMemberMemory |-> FALSE,
                                           writeCouncilMemory |-> FALSE],
                         !.fallback = [resolution |-> FallbackResolution(1),
                                       action |-> "TRANSITION",
                                       transitionToPhaseId |-> 2]]>>],
     oracle |-> [QuietOracle EXCEPT
                    !.turn = {Json("PASS", 0), Json("CALL_VOTE", 0)},
                    !.vote = {Json("YES", 0), Json("ABSTAIN", 0)},
                    !.inOrder = {"leader_election", "motion_vote"},
                    !.maxMotions = MaxMotions + 1],
     options |-> [approveExecution |-> FALSE]]

\* documentation output with one revision round
DocumentationScenario ==
    [cfg |-> [ConfigDefaults EXCEPT
                 !.output = [type |-> "documentation"],
                 !.documentationReview = [maxRevisionRounds |-> 1]],
     oracle |-> [QuietOracle EXCEPT
                    !.docvote = {Json("YES", 0), Json("NO", 0), Unparseable},
                    !.feedback = {Json("feedback", 2), Unparseable}],
     options |-> [approveExecution |-> FALSE]]

\* the leader summary answered well or badly, with and without approval
SummaryScenario(approveExecution, requireHumanApproval) ==
    [cfg |-> [ConfigDefaults EXCEPT
                 !.execution = [requireHumanApproval |-> requireHumanApproval]],
     oracle |-> [QuietOracle EXCEPT
                    !.summary = {Json("exec", 1), Json("execNoBrief", 0), Json("briefOnly", 1),
                                 Json("noexec", 1), Json("invalid", 0), Unparseable,
                                 TransportError}],
     options |-> [approveExecution |-> approveExecution]]

\* every model call may fail with a transport error
FailureScenario ==
    [cfg |-> [ConfigDefaults EXCEPT
                 !.output = [type |-> "documentation"],
                 !.documentationReview = [maxRevisionRounds |-> 1]],
     oracle |-> [election |-> {Json("candidate", 2), TransportError},
                 turn |-> {Json("PASS", 0), Json("CALL_VOTE", 0), TransportError},
                 second |-> {Json("true", 0), TransportError},
                 vote |-> {Json("NO", 0), TransportError},
                 summary |-> {Json("noexec", 0), TransportError},
                 text |-> {TextOk, TransportError},
                 docvote |-> {Json("NO", 0), TransportError},
                 feedback |-> {Json("feedback", 1), TransportError},
                 inOrder |-> {},
                 maxMotions |-> MaxMotions],
     options |-> [approveExecution |-> FALSE]]

\* the cyclic phase graph, one motion fewer
CycleScenario ==
    [GraphScenario EXCEPT !.oracle.maxMotions = MaxMotions]

\* the documentation review; only the feedback calls return in any order
ReviewScenario ==
    [DocumentationScenario EXCEPT
        !.oracle.docvote = {Json("YES", 0), Json("NO", 0)},
        !.oracle.feedback = {Json("feedback", 1), Unparseable},
        !.oracle.inOrder = {"leader_election", "document_approval_vote"}]

\* motions that are seconded or not, carried or not
DebateScenario ==
    [cfg |-> ConfigDefaults,
     oracle |-> [QuietOracle EXCEPT
                    !.turn = {Json("PASS", 0), Json("CALL_VOTE", 0)},
                    !.second = {Json("true", 0), Json("false", 0)},
                    !.vote = {Json("YES", 0), Json("NO", 0)},
                    !.inOrder = {"leader_election", "motion_seconding", "motion_vote"}],
     options |-> [approveExecution |-> FALSE]]

\* motions carried in a phase that a majority vote does not end
OpenFloorScenario ==
    [cfg |-> [ConfigDefaults EXCEPT
                 !.phases = <<[PhaseDefaults(1, 2) EXCEPT
                                  !.governance.requireSeconding = FALSE,
                                  !.stopConditions.endOnMajorityVote = FALSE]>>],
     oracle |-> [QuietOracle EXCEPT
                    !.turn = {Json("PASS", 0), Json("CALL_VOTE", 0)},
                    !.vote = {Json("YES", 0), Json("NO", 0)},
                    !.inOrder = {"leader_election", "motion_vote"}],
     options |-> [approveExecution |-> FALSE]]

\* the sessions checked for termination
\* documentation output without a revision round
SingleDraftScenario ==
    [DocumentationScenario EXCEPT
        !.cfg.documentationReview = [maxRevisionRounds |-> 0],
        !.oracle.docvote = {Json("YES", 0), Json("NO", 0), Json("ABSTAIN", 0)}]

\* a first phase that writes no memory, followed after a passed motion by a
\* phase that does
MemoryPolicyScenario ==
    [cfg |-> [ConfigDefaults EXCEPT
                 !.sessionPolicy = [entryPhaseId |-> 1, maxPhaseTransitions |-> 2],
                 !.phases = <<
                     [PhaseDefaults(1, 1) EXCEPT
                         !.governance.requireSeconding = FALSE,
                         !.memoryPolicy = [readMemberMemory |-> FALSE,
                                           writeMemberMemory |-> FALSE,
                                           writeCouncilMemory |-> FALSE],
                         !.transitions = <<Transition(2, "MAJORITY_VOTE", 1)>>],
                     [PhaseDefaults(2, 1) EXCEPT
                         !.memoryPolicy = [readMemberMemory |-> FALSE,
                                           writeMemberMemory |-> FALSE,
                                           writeCouncilMemory |-> TRUE]]>>],
     oracle |-> [QuietOracle EXCEPT
                    !.turn = {Json("PASS", 0), Json("CALL_VOTE", 0), Unparseable},
                    !.vote = {Json("YES", 0), Json("NO", 0)},
                    !.inOrder = {"leader_election", "motion_vote"}],
     options |-> [approveExecution |-> FALSE]]

FairScenarios == {ElectionScenario, CycleScenario, ReviewScenario, DebateScenario}

Scenarios ==
    {ElectionScenario, MotionScenario, SecondingScenario, FallbackScenario,
     GraphScenario, DocumentationScenario, FailureScenario, OpenFloorScenario,
     SingleDraftScenario, MemoryPolicyScenario}
    \cup {SummaryScenario(a, r) : a \in BOOLEAN, r \in BOOLEAN}

----------------------------------------------------------------------------
(* The state machine *)

\* no function is applied on its own
NoProbe ==
    [fn |-> "", done |-> FALSE,
     transitions |-> <<>>, fallback |-> PhaseDefaults(1, 1).fallback, endedBy |-> "",
     ballots |-> <<>>, governance |-> PhaseDefaults(1, 1).governance,
     transition |-> NoTransition,
     vote |-> [passed |-> FALSE, yesVotes |-> 0, noVotesEffective |-> 0]]

\* the state after new CouncilOrchestrator(config, ...) for a session of scs
InitOf(scs) ==
    /\ \E sc \in scs :
          /\ assertGraphIntegrity(sc.cfg)
          /\ cfg = sc.cfg
          /\ oracle = sc.oracle
          /\ options = sc.options
    /\ pc = "start"
    /\ events = <<>>
    /\ eventCounter = 0
    /\ state = [phase |-> "DISCUSSION", turnIndex |-> 0]
    /\ fan = NoFan
    /\ leaderId = 0
    /\ phaseResults = <<>>
    /\ nextPhaseId = 0
    /\ priorPhaseResolution = NoResolution
    /\ forcedStopReason = NoResolution
    /\ loc = NoLoc
    /\ motion = NoMotion
    /\ motionsCalled = 0
    /\ summary = NoSummary
    /\ doc = NoDoc
    /\ files = {}
    /\ out = NoOut
    /\ refLog = <<>>
    /\ probe = NoProbe
    /\ memory = NoMemory
    /\ recorder = NoRecorder

Init == InitOf(Scenarios)

FairInit == InitOf(FairScenarios)

\* the answers the oracle allows for the calls of the current fan-out
Answers ==
    CASE fan.kind = "motion_seconding" -> oracle.second
      [] fan.kind = "motion_vote" -> oracle.vote
      [] fan.kind = "document_approval_vote" -> oracle.docvote
      [] OTHER -> {}

Next ==
    \/ StartSession
    \/ \E m \in fan.pending : \E raw \in oracle.election : ElectionBallotReturns(m, raw)
    \/ ElectLeader
    \/ EnterPhase
    \/ StopAtTransitionLimit
    \/ StartRound
    \/ BeginTurn
    \/ \E raw \in oracle.turn : TurnActionReturns(raw)
    \/ \E m \in fan.pending : \E raw \in Answers : PairReturns(m, raw)
    \/ ResolveSeconding
    \/ TallyMotionVote
    \/ EndRound
    \/ CompletePhase
    \/ RequestLeaderSummary
    \/ \E raw \in oracle.summary : LeaderSummaryReturns(raw)
    \/ \E raw \in oracle.text : DocumentTextReturns(raw)
    \/ TallyDocumentVote
    \/ \E m \in fan.pending : \E raw \in oracle.feedback : FeedbackReturns(m, raw)
    \/ RequestRevision
    \/ CloseSession
    \/ RecordSession
    \/ FinalizeSession

Spec == Init /\ [][Next]_vars

\* every model call returns and the event loop runs every continuation that is
\* ready: a step that can be taken is eventually taken
FairSpec == FairInit /\ [][Next]_vars /\ WF_vars(Next)

----------------------------------------------------------------------------
(* The functions of the orchestrator applied on their own *)

\* sequences over S of length at most n
RECURSIVE SeqsUpTo(_, _)
SeqsUpTo(S, n) ==
    IF n = 0 THEN {<<>>}
    ELSE LET shorter == SeqsUpTo(S, n - 1)
         IN shorter \cup {Append(q, x) : q \in shorter, x \in S}

\* transitions and fallbacks of a phase in a validated graph of phases 1 and 2
TransitionChoices ==
    {Transition(to, when, priority) :
        to \in {1, 2}, when \in {"MAJORITY_VOTE", "ROUND_LIMIT", "ALWAYS"},
        priority \in {1, 2}}

FallbackChoices ==
    {[resolution |-> FallbackResolution(1), action |-> "END_SESSION",
      transitionToPhaseId |-> 0]}
    \cup {[resolution |-> FallbackResolution(1), action |-> "TRANSITION",
           transitionToPhaseId |-> to] : to \in {1, 2}}

GovernanceChoices ==
    {[requireSeconding |-> TRUE, majorityThreshold |-> t, abstainCountsAsNo |-> a] :
        t \in {[num |-> 1, den |-> 2], [num |-> 1, den |-> 3], [num |-> 3, den |-> 5],
               [num |-> 2, den |-> 3], [num |-> 1, den |-> 1]},
        a \in BOOLEAN}

ProbeInputs ==
    {[NoProbe EXCEPT !.fn = "resolveNextPhaseTransition",
                     !.transitions = ts, !.fallback = fb, !.endedBy = e] :
        ts \in SeqsUpTo(TransitionChoices, MaxTransitions),
        fb \in FallbackChoices,
        e \in {"MAJORITY_VOTE", "ROUND_LIMIT"}}
    \cup
    {[NoProbe EXCEPT !.fn = "computeVotePass", !.ballots = bs, !.governance = g] :
        bs \in SeqsUpTo({"YES", "NO", "ABSTAIN"}, MaxBallots) \ {<<>>},
        g \in GovernanceChoices}

\* no session is run; one function is given its arguments
PureInit ==
    /\ probe \in ProbeInputs
    /\ cfg = ConfigDefaults
    /\ oracle = QuietOracle
    /\ options = [approveExecution |-> FALSE]
    /\ pc = "idle"
    /\ events = <<>>
    /\ eventCounter = 0
    /\ state = [phase |-> "DISCUSSION", turnIndex |-> 0]
    /\ fan = NoFan
    /\ leaderId = 0
    /\ phaseResults = <<>>
    /\ nextPhaseId = 0
    /\ priorPhaseResolution = NoResolution
    /\ forcedStopReason = NoResolution
    /\ loc = NoLoc
    /\ motion = NoMotion
    /\ motionsCalled = 0
    /\ summary = NoSummary
    /\ doc = NoDoc
    /\ files = {}
    /\ out = NoOut
    /\ refLog = <<>>
    /\ memory = NoMemory
    /\ recorder = NoRecorder

ApplyResolveNextPhaseTransition ==
    /\ probe.fn = "resolveNextPhaseTransition"
    /\ ~probe.done
    /\ probe' = [probe EXCEPT
          !.done = TRUE,
          !.transition = resolveNextPhaseTransition(
              [transitions |-> probe.transitions, fallback |-> probe.fallback],
              probe.endedBy)]
    /\ UNCHANGED <<session, memory, recorder>>

ApplyComputeVotePass ==
    /\ probe.fn = "computeVotePass"
    /\ ~probe.done
    /\ probe' = [probe EXCEPT
          !.done = TRUE,
          !.vote = computeVotePass(probe.ballots, probe.governance)]
    /\ UNCHANGED <<session, memory, recorder>>

PureNext ==
    \/ ApplyResolveNextPhaseTransition
    \/ ApplyComputeVotePass

PureSpec == PureInit /\ [][PureNext]_vars

----------------------------------------------------------------------------
(* The memory store over a long series of sessions.  The sessions are not   *)
(* run; each hands the store the input its plan prescribes.                 *)

MemoryMembers == {1, 2}

\* what a session hands to recordSession, as far as the store looks at it
SessionProfile(endedBy, fallbacks, requiresExecution, approved) ==
    [endedBy |-> endedBy, fallbacks |-> fallbacks,
     requiresExecution |-> requiresExecution, executionApproved |-> approved]

SessionProfiles ==
    {SessionProfile("MAJORITY_VOTE", {}, FALSE, FALSE),
     SessionProfile("ROUND_LIMIT", {1}, FALSE, FALSE),
     SessionProfile("MAJORITY_VOTE", {}, TRUE, TRUE),
     SessionProfile("ROUND_LIMIT", {1, 2}, TRUE, FALSE)}

\* the session numbers at which a plan may change its profile
SwitchPoints == {30, 81}

\* a series of sessions of one profile, or of one profile up to a session
\* and of another from there on
Plans ==
    {[first |-> pr, second |-> pr, switchAt |-> 1] : pr \in SessionProfiles}
    \cup {pl \in [first : SessionProfiles, second : SessionProfiles,
                   switchAt : SwitchPoints] : pl.first # pl.second}

\* the profile of the session about to be recorded
PlannedProfile ==
    IF memory.sessions + 1 < memory.plan.switchAt THEN memory.plan.first
    ELSE memory.plan.second

\* the TURN_ACTION events of a session: every member passes once, the members
\* of fallbacks through the parse fallback
TurnActionsOf(fallbacks) ==
    [m \in 1..Cardinality(MemoryMembers) |->
        LET action == normalizeTurnAction(
                          IF m \in fallbacks THEN completeJsonSafe(Unparseable).value
                          ELSE Json("PASS", 0))
        IN Item("TURN_ACTION", 1, m, "DISCUSSION",
                [NoPayload EXCEPT !.action = action.action, !.reason = action.reason])]

PlannedInput ==
    [sessionId |-> memory.sessions + 1,
     endedBy |-> PlannedProfile.endedBy,
     events |-> TurnActionsOf(PlannedProfile.fallbacks),
     requiresExecution |-> PlannedProfile.requiresExecution,
     executionApproved |-> PlannedProfile.executionApproved]

\* no session is run; the memory store is initialised and has a plan
MemoryInit ==
    /\ \E pl \in Plans :
          memory = [MemoryStoreInit(NoMemory, MemoryMembers) EXCEPT !.plan = pl]
    /\ probe = NoProbe
    /\ recorder = NoRecorder
    /\ cfg = ConfigDefaults
    /\ oracle = QuietOracle
    /\ options = [approveExecution |-> FALSE]
    /\ pc = "idle"
    /\ events = <<>>
    /\ eventCounter = 0
    /\ state = [phase |-> "DISCUSSION", turnIndex |-> 0]
    /\ fan = NoFan
    /\ leaderId = 0
    /\ phaseResults = <<>>
    /\ nextPhaseId = 0
    /\ priorPhaseResolution = NoResolution
    /\ forcedStopReason = NoResolution
    /\ loc = NoLoc
    /\ motion = NoMotion
    /\ motionsCalled = 0
    /\ summary = NoSummary
    /\ doc = NoDoc
    /\ files = {}
    /\ out = NoOut
    /\ refLog = <<>>

\* the next session of the plan closes and is recorded
RecordPlannedSession ==
    /\ pc = "idle"
    /\ memory.initialised
    /\ memory.sessions < MaxSessions
    /\ memory' = recordSession(memory, PlannedInput, memory.sessions + 1)
    /\ UNCHANGED <<session, probe, recorder>>

MemoryNext == RecordPlannedSession

MemorySpec == MemoryInit /\ [][MemoryNext]_vars

----------------------------------------------------------------------------
(* Config files with arbitrary phase graphs, loaded by main() *)

LoadPhaseIds == {1, 2, 3}

\* a phase with at most one transition (to = 0: none) and a fallback that ends
\* the session (fallbackTo = 0) or transitions
GraphPhase(id, to, fallbackTo) ==
    [PhaseDefaults(id, 1) EXCEPT
        !.transitions = IF to = 0 THEN <<>> ELSE <<Transition(to, "ALWAYS", 0)>>,
        !.fallback = [resolution |-> FallbackResolution(id),
                      action |-> IF fallbackTo = 0 THEN "END_SESSION" ELSE "TRANSITION",
                      transitionToPhaseId |-> fallbackTo]]

LoadTargets == [LoadPhaseIds -> LoadPhaseIds \cup {0}]

LoadConfigs ==
    {[ConfigDefaults EXCEPT
         !.sessionPolicy = [entryPhaseId |-> entry, maxPhaseTransitions |-> 2],
         !.phases = <<GraphPhase(1, to[1], fb[1]), GraphPhase(2, to[2], fb[2]),
                      GraphPhase(3, to[3], fb[3])>>] :
        entry \in LoadPhaseIds, to \in LoadTargets, fb \in LoadTargets}

\* the process before main() has read the config file
LoadInit ==
    /\ cfg \in LoadConfigs
    /\ oracle = QuietOracle
    /\ options = [approveExecution |-> FALSE]
    /\ pc = "loading"
    /\ events = <<>>
    /\ eventCounter = 0
    /\ state = [phase |-> "DISCUSSION", turnIndex |-> 0]
    /\ fan = NoFan
    /\ leaderId = 0
    /\ phaseResults = <<>>
    /\ nextPhaseId = 0
    /\ priorPhaseResolution = NoResolution
    /\ forcedStopReason = NoResolution
    /\ loc = NoLoc
    /\ motion = NoMotion
    /\ motionsCalled = 0
    /\ summary = NoSummary
    /\ doc = NoDoc
    /\ files = {}
    /\ out = NoOut
    /\ refLog = <<>>
    /\ probe = NoProbe
    /\ memory = NoMemory
    /\ recorder = NoRecorder

LoadNext ==
    \/ LoadConfig
    \/ StartSession

LoadSpec == LoadInit /\ [][LoadNext]_vars

----------------------------------------------------------------------------
(* The recorder of one session up to the elected leader *)

\* the state after recorder.init: events.json holds the empty array
RecorderInit ==
    /\ recorder = [mode |-> "starting",
                   events |-> <<>>,
                   eventsFile |-> [content |-> <<>>, torn |-> FALSE],
                   calls |-> [c \in {0} \cup Range(ConfigDefaults.members) |-> NoCall],
                   overlapped |-> FALSE]
    /\ cfg = ConfigDefaults
    /\ oracle = QuietOracle
    /\ options = [approveExecution |-> FALSE]
    /\ pc = "recording"
    /\ events = <<>>
    /\ eventCounter = 0
    /\ state = [phase |-> "DISCUSSION", turnIndex |-> 0]
    /\ fan = NoFan
    /\ leaderId = 0
    /\ phaseResults = <<>>
    /\ nextPhaseId = 0
    /\ priorPhaseResolution = NoResolution
    /\ forcedStopReason = NoResolution
    /\ loc = NoLoc
    /\ motion = NoMotion
    /\ motionsCalled = 0
    /\ summary = NoSummary
    /\ doc = NoDoc
    /\ files = {}
    /\ out = NoOut
    /\ refLog = <<>>
    /\ probe = NoProbe
    /\ memory = NoMemory

RecorderNext ==
    \/ RunAppendsStart
    \/ ElectionFansOut
    \/ \E m \in Range(cfg.members) : WorkerAppendsBallot(m)
    \/ RunAppendsElected
    \/ \E caller \in {0} \cup Range(cfg.members) :
          \/ OpenEventsFile(caller)
          \/ WriteEventsFile(caller)
          \/ CompleteAppend(caller)

RecorderSpec == RecorderInit /\ [][RecorderNext]_vars

----------------------------------------------------------------------------
(* Properties *)

EventIxs(type) == {i \in 1..Len(events) : events[i].type = type}

\* the turn order the configuration prescribes
ExpectedOrder == IF cfg.turnOrder = <<>> THEN cfg.members ELSE cfg.turnOrder

\* position of member m in the sequence order
Pos(order, m) == CHOOSE i \in 1..Len(order) : order[i] = m

\* C1: in the recorded event list the event ids are strictly increasing and
\* the turnIndex field never decreases, whoever appended the events (run()
\* itself or the workers of a fan-out).
C1_MonotonicEventOrder ==
    \A i \in 1..(Len(events) - 1) :
        /\ events[i].id < events[i + 1].id
        /\ events[i].turnIndex <= events[i + 1].turnIndex

\* a finished session whose election workers appended their ballots against
\* the declaration order and whose turns advanced turnIndex
C1_Witness ==
    /\ pc = "returned"
    /\ state.turnIndex >= 3
    /\ \E i, j \in EventIxs("LEADER_ELECTION_BALLOT") :
          /\ i < j
          /\ Pos(cfg.members, events[i].actorId) > Pos(cfg.members, events[j].actorId)

\* the VOTE_CAST events of the vote the current fan-out belongs to
CurrentVoteCasts ==
    {i \in EventIxs("VOTE_CAST") :
        IF fan.kind = "motion_vote"
        THEN events[i].payload.motionId = motion.motionId
        ELSE /\ events[i].payload.voteType = "DOCUMENT_APPROVAL"
             /\ events[i].payload.revision = doc.revision}

\* C2: blind voting.  While a motion vote or a document-approval vote has a
\* ballot outstanding, or was aborted, no VOTE_CAST of that vote is in the log;
\* and the transcript every vote prompt was built from ends before the first
\* VOTE_CAST of that vote.
C2_BlindVoting ==
    fan.kind \in {"motion_vote", "document_approval_vote"} =>
        /\ CurrentVoteCasts # {} =>
              /\ fan.pending = {}
              /\ \A i \in 1..Len(fan.raw) : fan.raw[i].k \in {"JSON", "UNPARSEABLE"}
        /\ \A i \in CurrentVoteCasts : i > fan.snap

\* a motion vote whose three ballots are in the log
C2_Witness ==
    /\ fan.kind = "motion_vote"
    /\ Cardinality(CurrentVoteCasts) = Len(cfg.members)
    /\ \E i \in CurrentVoteCasts : events[i].payload.ballot = "NO"

\* YES ballots among the VOTE_CAST events of motion motionId
YesCast(motionId) ==
    Cardinality({i \in EventIxs("VOTE_CAST") :
                    /\ events[i].payload.motionId = motionId
                    /\ events[i].payload.ballot = "YES"})

HalfGovernance(phaseId) ==
    LET g == requirePhase(cfg, phaseId).governance IN
    2 * g.majorityThreshold.num = g.majorityThreshold.den /\ g.abstainCountsAsNo

\* C3: in a phase with majorityThreshold 0.5 and abstainCountsAsNo, a
\* VOTE_RESULT says passed exactly when the YES ballots cast on the motion
\* number at least floor(N/2) + 1, N being the size of the council, and it
\* reports that N as totalCouncilSize.
C3_FullDenominatorMajority ==
    \A i \in EventIxs("VOTE_RESULT") :
        HalfGovernance(events[i].payload.passId) =>
            /\ events[i].payload.passed <=>
                  YesCast(events[i].payload.motionId) >= (Len(cfg.members) \div 2) + 1
            /\ events[i].payload.yesVotes = YesCast(events[i].payload.motionId)
            /\ events[i].payload.totalCouncilSize = Len(cfg.members)

\* a motion that failed with one YES against two ballots that fell back to
\* ABSTAIN because the answers could not be parsed
C3_Witness ==
    \E i \in EventIxs("VOTE_RESULT") :
        /\ HalfGovernance(events[i].payload.passId)
        /\ ~events[i].payload.passed
        /\ events[i].payload.yesVotes = 1
        /\ Cardinality({j \in EventIxs("VOTE_CAST") :
                           /\ events[j].payload.motionId = events[i].payload.motionId
                           /\ events[j].payload.ballot = "ABSTAIN"
                           /\ events[j].payload.rationale = "Model JSON parse error"}) = 2

\* the answer is not one the normalizer accepts
Rejected(raw, accepted) ==
    raw.k = "UNPARSEABLE" \/ (raw.k = "JSON" /\ raw.s \notin accepted)

\* the fallback of the turn whose answer has just come back
TurnFallback ==
    (/\ pc = "awaitTurn"
     /\ fan'.kind = "turn_action"
     /\ Rejected(fan'.raw[1], {"CONTRIBUTE", "PASS", "CALL_VOTE"})) =>
        /\ pc' = "turnLoop"
        /\ Len(events') = Len(events) + 2
        /\ events'[Len(events) + 1].type = "TURN_ACTION"
        /\ events'[Len(events) + 1].actorId = ExpectedOrder[loc.speakerIx]
        /\ events'[Len(events) + 1].payload.action = "PASS"
        /\ fan'.raw[1].k = "UNPARSEABLE" =>
              events'[Len(events) + 1].payload.reason = "Model JSON parse error"
        /\ events'[Len(events) + 2].type = "PASS_RECORDED"
        /\ loc'.speakerIx = loc.speakerIx + 1

\* the fallbacks of the seconding responses that have just been joined
SecondingFallback ==
    (pc = "seconding" /\ pc' \notin {"seconding", "rejected"}) =>
        LET n == Len(fan.members)
            seconders == {i \in 1..n : fan.raw[i] = Json("true", 0)}
            outcome == events'[Len(events) + n + 1]
        IN
        /\ \A i \in 1..n :
              Rejected(fan.raw[i], {"true", "false"}) =>
                 /\ events'[Len(events) + i].type = "SECONDING_RESPONSE"
                 /\ events'[Len(events) + i].actorId = fan.members[i]
                 /\ ~events'[Len(events) + i].payload.second
                 /\ fan.raw[i].k = "UNPARSEABLE" =>
                       events'[Len(events) + i].payload.rationale = "Model JSON parse error"
        /\ IF seconders = {}
           THEN outcome.type = "MOTION_NOT_SECONDED" /\ pc' = "turnLoop"
           ELSE /\ outcome.type = "MOTION_SECONDED"
                /\ outcome.payload.secondedBy \in {fan.members[i] : i \in seconders}
                /\ pc' = "voting"

\* the fallbacks of the ballots that have just been joined
VoteFallback ==
    (pc \in {"voting", "docVoting"} /\ pc' \notin {pc, "rejected"}) =>
        LET n == Len(fan.members)
            result == events'[Len(events) + n + 1]
        IN
        /\ \A i \in 1..n :
              Rejected(fan.raw[i], {"YES", "NO", "ABSTAIN"}) =>
                 /\ events'[Len(events) + i].type = "VOTE_CAST"
                 /\ events'[Len(events) + i].actorId = fan.members[i]
                 /\ events'[Len(events) + i].payload.ballot = "ABSTAIN"
                 /\ fan.raw[i].k = "UNPARSEABLE" =>
                       events'[Len(events) + i].payload.rationale = "Model JSON parse error"
        /\ result.type \in {"VOTE_RESULT", "DOCUMENT_APPROVAL_VOTE_RESULT"}
        /\ result.payload.yesVotes =
              Cardinality({i \in 1..n : fan.raw[i] = Json("YES", 0)})

\* run() rejects only on an error of the transport
AbortOnlyOnTransportError ==
    (pc # "rejected" /\ pc' = "rejected") =>
        \E i \in 1..Len(fan'.raw) : fan'.raw[i].k = "TRANSPORT"

\* C4: an answer that cannot be parsed, or that the normalizer does not accept,
\* at a turn, seconding or vote step never aborts the session: the turn is
\* recorded as TURN_ACTION PASS (reason "Model JSON parse error" for a parse
\* error), the seconding response as second = false, the ballot as ABSTAIN,
\* and the step that follows is the one that answer leads to.
C4_ParseFallback ==
    [][TurnFallback /\ SecondingFallback /\ VoteFallback /\ AbortOnlyOnTransportError]_vars

\* a finished session in which a turn answer, a seconding answer and a ballot
\* were replaced by their fallbacks
C4_Witness ==
    /\ pc = "returned"
    /\ \E i \in EventIxs("TURN_ACTION") :
          /\ events[i].payload.action = "PASS"
          /\ events[i].payload.reason = "Model JSON parse error"
    /\ \E i \in EventIxs("SECONDING_RESPONSE") :
          /\ ~events[i].payload.second
          /\ events[i].payload.rationale = "Model JSON parse error"
    /\ \E i \in EventIxs("VOTE_CAST") :
          /\ events[i].payload.ballot = "ABSTAIN"
          /\ events[i].payload.rationale = "Invalid response format."

\* C5: an error of the transport (not a parse error) from any model call is
\* fatal: run() rejects, and a rejected session has no SESSION_CLOSED event,
\* no session.json, no recordSession call and no result.
C5_FailFast ==
    /\ (\E i \in 1..Len(fan.raw) : fan.raw[i].k = "TRANSPORT") => pc = "rejected"
    /\ pc = "rejected" =>
          /\ EventIxs("SESSION_CLOSED") = {}
          /\ ~out.sessionJson.written
          /\ ~out.recordSession
          /\ ~out.result.returned

\* a session rejected in the feedback fan-out of the documentation review,
\* all of whose calls have come back
C5_Witness ==
    /\ pc = "rejected"
    /\ fan.kind = "document_feedback"
    /\ fan.pending = {}
    /\ EventIxs("DOCUMENT_FEEDBACK_SUBMITTED") # {}

RoundClosers == {"ROUND_STARTED", "ROUND_LIMIT_REACHED", "PASS_COMPLETED"}

\* index of the event that ends the round started by event i, or Len(events) + 1
RoundEnd(i) ==
    LET later == {j \in (i + 1)..Len(events) : events[j].type \in RoundClosers} IN
    IF later = {} THEN Len(events) + 1
    ELSE CHOOSE j \in later : \A k \in later : j <= k

\* the speakers of the round started by event i, in the order of their turns
SpeakersOfRound(i) ==
    LET turns == SelectSeq(SubSeq(events, i + 1, RoundEnd(i) - 1),
                           LAMBDA e : e.type = "TURN_ACTION")
    IN [k \in 1..Len(turns) |-> turns[k].actorId]

\* C6: in every round of every phase the speakers are the members in the
\* resolved turn order (turnOrder if configured, else declaration order), one
\* turn each; a round that ended with fewer speakers ended with a passed vote
\* that closed the phase by MAJORITY_VOTE.
C6_RoundRobin ==
    \A i \in EventIxs("ROUND_STARTED") :
        LET speakers == SpeakersOfRound(i)
            end == RoundEnd(i)
        IN
        /\ Len(speakers) <= Len(ExpectedOrder)
        /\ \A k \in 1..Len(speakers) : speakers[k] = ExpectedOrder[k]
        /\ (end <= Len(events) /\ speakers # ExpectedOrder) =>
              /\ events[end].type = "PASS_COMPLETED"
              /\ events[end].payload.endedBy = "MAJORITY_VOTE"
              /\ events[end - 1].type = "VOTE_RESULT"
              /\ events[end - 1].payload.passed

\* a finished session with a configured turn order that differs from the
\* declaration order, whose round was cut short by a passed motion
C6_Witness ==
    /\ pc = "returned"
    /\ cfg.turnOrder # <<>>
    /\ cfg.turnOrder # cfg.members
    /\ \E i \in EventIxs("ROUND_STARTED") :
          /\ SpeakersOfRound(i) # <<>>
          /\ Len(SpeakersOfRound(i)) < Len(ExpectedOrder)

\* C7: no more than maxPhaseTransitions phases are run; when the guard stops a
\* pending transition, the terminal outcome given to the leader summary has
\* endedBy ROUND_LIMIT and the stop reason as its resolution, the session ends
\* with endedBy ROUND_LIMIT and session.json has transitionLimitReached.
C7_TransitionLimit ==
    /\ Len(phaseResults) <= cfg.sessionPolicy.maxPhaseTransitions
    /\ Cardinality(EventIxs("PASS_STARTED")) <= cfg.sessionPolicy.maxPhaseTransitions
    /\ forcedStopReason.kind # "" =>
          /\ Len(phaseResults) = cfg.sessionPolicy.maxPhaseTransitions
          /\ forcedStopReason = [kind |-> "maxPhaseTransitions", ref |-> nextPhaseId]
          /\ summary.promptEndedBy # "" =>
                /\ summary.promptEndedBy = "ROUND_LIMIT"
                /\ summary.promptResolution = forcedStopReason
                /\ summary.terminalResult.endedBy = "ROUND_LIMIT"
                /\ summary.terminalResult.finalResolution = forcedStopReason
          /\ \A i \in EventIxs("SESSION_CLOSED") :
                events[i].payload.endedBy = "ROUND_LIMIT"
          /\ out.result.returned => out.result.endedBy = "ROUND_LIMIT"
    /\ out.sessionJson.written =>
          /\ out.sessionJson.transitionLimitReached <=> forcedStopReason.kind # ""
          /\ out.sessionJson.transitionLimitReached =>
                out.sessionJson.endedBy = "ROUND_LIMIT"
          /\ out.sessionJson.phasesRun <= cfg.sessionPolicy.maxPhaseTransitions

\* a finished session that the guard stopped with a transition pending
C7_Witness ==
    /\ pc = "returned"
    /\ out.sessionJson.transitionLimitReached
    /\ nextPhaseId # 0
    /\ Len(phaseResults) = cfg.sessionPolicy.maxPhaseTransitions

\* the loops of run() stay within their bounds
LoopsBounded ==
    /\ Len(phaseResults) <= cfg.sessionPolicy.maxPhaseTransitions
    /\ loc.phaseId # 0 =>
          loc.roundsCompleted <= requirePhase(cfg, loc.phaseId).stopConditions.maxRounds
    /\ \A i \in EventIxs("ROUND_STARTED") :
          events[i].round <=
              requirePhase(cfg, events[i].payload.passId).stopConditions.maxRounds
    /\ Cardinality(EventIxs("DOCUMENT_APPROVAL_VOTE_RESULT")) <=
          cfg.documentationReview.maxRevisionRounds + 1

\* run() has returned after SESSION_CLOSED, or was rejected by a failed call
Terminated ==
    \/ pc = "rejected"
    \/ /\ pc = "returned"
       /\ Cardinality(EventIxs("SESSION_CLOSED")) = 1
       /\ events[Len(events)].type = "SESSION_CLOSED"

\* C8: every session terminates.  When every model call returns, run()
\* eventually appends SESSION_CLOSED and returns (or a call fails and run()
\* rejects); the round loop stays within maxRounds, the phase loop within
\* maxPhaseTransitions and the documentation review within
\* maxRevisionRounds + 1 votes.
C8_Termination == []LoopsBounded /\ <>Terminated

\* a finished session that went round a cycle of the phase graph and was
\* stopped by the guard
C8_Witness ==
    /\ pc = "returned"
    /\ events[Len(events)].type = "SESSION_CLOSED"
    /\ \E i, j \in 1..Len(phaseResults) :
          i < j /\ phaseResults[i].phaseId = phaseResults[j].phaseId

\* C9: the event sequence of a finished session is the one of the run in
\* which the calls of every fan-out, given the same answers, complete in the
\* order in which they were issued.
C9_Deterministic == pc = "returned" => events = refLog

\* the response events of one fan-out: same type, same turn, same draft
SameFanOut(i, j) ==
    /\ events[i].type = events[j].type
    /\ events[i].type \in {"LEADER_ELECTION_BALLOT", "SECONDING_RESPONSE", "VOTE_CAST",
                           "DOCUMENT_FEEDBACK_SUBMITTED"}
    /\ events[i].turnIndex = events[j].turnIndex
    /\ events[i].payload.motionId = events[j].payload.motionId
    /\ events[i].payload.revision = events[j].payload.revision

\* the order in which the calls of the fan-out of event i are issued
FanOutOrder(i) ==
    IF events[i].type = "LEADER_ELECTION_BALLOT" THEN cfg.members ELSE ExpectedOrder

\* C10: the response events of a fan-out are in member order (declaration
\* order for the election, turn order for the others).
C10_FanOutMemberOrder ==
    \A i, j \in 1..Len(events) :
        (i < j /\ SameFanOut(i, j)) =>
            Pos(FanOutOrder(i), events[i].actorId) < Pos(FanOutOrder(i), events[j].actorId)

\* index of the PASS_STARTED event of the phase run that event e belongs to
PassStart(e) ==
    CHOOSE i \in EventIxs("PASS_STARTED") :
        i < e /\ \A j \in EventIxs("PASS_STARTED") : j < e => j <= i

\* the vote reported by event i closes its phase
ClosingVote(i) ==
    /\ events[i].type = "VOTE_RESULT"
    /\ events[i].payload.passed
    /\ requirePhase(cfg, events[i].payload.passId).stopConditions.endOnMajorityVote

\* the member who called the motion of VOTE_RESULT or MOTION_NOT_SECONDED event i
CallerOf(i) ==
    events[CHOOSE j \in EventIxs("MOTION_CALLED") :
              events[j].payload.motionId = events[i].payload.motionId].actorId

\* event i + 1 resumes the discussion after the motion settled by event i: the
\* turn of the speaker after the caller, or the end of the round
DiscussionResumes(i) ==
    LET p == Pos(ExpectedOrder, CallerOf(i))
        next == events[i + 1]
    IN IF p < Len(ExpectedOrder)
       THEN /\ next.type = "TURN_ACTION"
            /\ next.actorId = ExpectedOrder[p + 1]
            /\ next.round = events[i].round
            /\ next.payload.passId = events[i].payload.passId
       ELSE \/ next.type = "ROUND_STARTED" /\ next.round = events[i].round + 1
            \/ next.type = "ROUND_LIMIT_REACHED"

\* C11: a phase run ends with endedBy MAJORITY_VOTE exactly when a vote passed
\* in it under endOnMajorityVote; PASS_COMPLETED then follows that VOTE_RESULT
\* at once and carries the motion's decision and the motion as winner.  After
\* any other VOTE_RESULT the discussion resumes with the next speaker of the
\* same round.
C11_MajorityVoteClosesPhase ==
    /\ \A e \in EventIxs("PASS_COMPLETED") :
          LET closing == {i \in PassStart(e)..e : ClosingVote(i)} IN
          /\ events[e].payload.endedBy = "MAJORITY_VOTE" <=> closing # {}
          /\ closing # {} =>
                /\ closing = {e - 1}
                /\ events[e].payload.resolution =
                      [kind |-> "decision", ref |-> events[e - 1].payload.motionId]
                /\ events[e].payload.motionId = events[e - 1].payload.motionId
    /\ \A i \in EventIxs("VOTE_RESULT") :
          i < Len(events) =>
             IF ClosingVote(i)
             THEN events[i + 1].type = "PASS_COMPLETED"
             ELSE DiscussionResumes(i)

\* a finished session in which a motion passed without closing the phase and
\* the next speaker took the floor
C11_Witness ==
    /\ pc = "returned"
    /\ \E i \in EventIxs("VOTE_RESULT") :
          /\ events[i].payload.passed
          /\ ~ClosingVote(i)
          /\ events[i + 1].type = "TURN_ACTION"

\* the SECONDING_RESPONSE events that follow MOTION_CALLED event c
ResponsesTo(c) == (c + 1)..(c + Len(ExpectedOrder) - 1)

\* C12: in a phase that requires seconding, a motion that none of the other
\* members seconds gets MOTION_NOT_SECONDED; it is never put to the vote (no
\* vote prompt, no VOTE_CAST, no VOTE_RESULT), and the discussion resumes with
\* the speaker after the caller, or with the next round.
C12_NotSecondedMotionIsDropped ==
    /\ \A c \in EventIxs("MOTION_CALLED") :
          (/\ requirePhase(cfg, events[c].payload.passId).governance.requireSeconding
           /\ c < Len(events)) =>
              /\ \A j \in ResponsesTo(c) :
                    /\ events[j].type = "SECONDING_RESPONSE"
                    /\ events[j].actorId # events[c].actorId
              /\ events[c + Len(ExpectedOrder)].type =
                    IF \A j \in ResponsesTo(c) : ~events[j].payload.second
                    THEN "MOTION_NOT_SECONDED"
                    ELSE "MOTION_SECONDED"
              /\ events[c + Len(ExpectedOrder)].payload.motionId =
                    events[c].payload.motionId
    /\ \A i \in EventIxs("MOTION_NOT_SECONDED") :
          /\ \A j \in EventIxs("VOTE_CAST") \cup EventIxs("VOTE_RESULT") :
                events[j].payload.motionId # events[i].payload.motionId
          /\ fan.kind = "motion_vote" => motion.motionId # events[i].payload.motionId
          /\ i = Len(events) => state.phase = "DISCUSSION"
          /\ i < Len(events) => DiscussionResumes(i)

\* a finished session in which the motion of the second speaker found no
\* seconder and the third speaker took the floor
C12_Witness ==
    /\ pc = "returned"
    /\ \E i \in EventIxs("MOTION_NOT_SECONDED") :
          /\ CallerOf(i) = ExpectedOrder[2]
          /\ events[i + 1].type = "TURN_ACTION"
          /\ events[i + 1].actorId = ExpectedOrder[3]
          /\ \E j \in ResponsesTo(i - Len(ExpectedOrder)) :
                events[j].payload.rationale = "Model JSON parse error"

\* the ROUND_STARTED events of the phase run completed by event e
RoundsOf(e) == {i \in EventIxs("ROUND_STARTED") : PassStart(e) < i /\ i < e}

\* C13: a phase run whose round loop ended without a passed motion closing it
\* had exactly maxRounds rounds, numbered 1..maxRounds, and ends with
\* ROUND_LIMIT_REACHED followed by PASS_COMPLETED with endedBy ROUND_LIMIT and
\* the fallback resolution of the phase; no other run has ROUND_LIMIT_REACHED.
C13_RoundLimit ==
    \A e \in EventIxs("PASS_COMPLETED") :
        LET phase == requirePhase(cfg, events[e].payload.passId)
            closed == \E i \in PassStart(e)..e : ClosingVote(i)
            limit == {i \in EventIxs("ROUND_LIMIT_REACHED") : PassStart(e) < i /\ i < e}
        IN
        IF closed
        THEN limit = {}
        ELSE /\ Cardinality(RoundsOf(e)) = phase.stopConditions.maxRounds
             /\ {events[i].round : i \in RoundsOf(e)} = 1..phase.stopConditions.maxRounds
             /\ limit = {e - 1}
             /\ events[e - 1].payload.resolution = phase.fallback.resolution
             /\ events[e - 1].round = phase.stopConditions.maxRounds
             /\ events[e].payload.endedBy = "ROUND_LIMIT"
             /\ events[e].payload.resolution = phase.fallback.resolution
             /\ events[e].payload.motionId = 0

\* a finished session whose phase of two rounds ran out of rounds after a
\* motion had failed
C13_Witness ==
    /\ pc = "returned"
    /\ \E e \in EventIxs("PASS_COMPLETED") :
          /\ events[e].payload.endedBy = "ROUND_LIMIT"
          /\ Cardinality(RoundsOf(e)) = 2
          /\ \E i \in EventIxs("VOTE_RESULT") : PassStart(e) < i /\ i < e

\* indices of the transitions of the probe that the ending makes eligible
Eligible ==
    {i \in 1..Len(probe.transitions) :
        \/ probe.transitions[i].when = "ALWAYS"
        \/ probe.transitions[i].when = probe.endedBy}

\* C14: resolveNextPhaseTransition returns an eligible transition (trigger
\* ALWAYS or equal to endedBy) of the smallest priority, and among those of the
\* smallest target id; with none eligible, the fallback target when endedBy is
\* ROUND_LIMIT and fallback.action is TRANSITION; otherwise no transition - so
\* also after MAJORITY_VOTE with fallback.action TRANSITION.
C14_NextPhaseTransition ==
    (probe.fn = "resolveNextPhaseTransition" /\ probe.done) =>
        IF Eligible # {}
        THEN /\ \E i \in Eligible : probe.transition = probe.transitions[i]
             /\ \A j \in Eligible :
                   \/ probe.transition.priority < probe.transitions[j].priority
                   \/ /\ probe.transition.priority = probe.transitions[j].priority
                      /\ probe.transition.to <= probe.transitions[j].to
        ELSE IF probe.endedBy = "ROUND_LIMIT" /\ probe.fallback.action = "TRANSITION"
        THEN /\ probe.transition.to = probe.fallback.transitionToPhaseId
             /\ probe.transition.to # 0
        ELSE probe.transition = NoTransition

\* the phase ended by MAJORITY_VOTE, only ROUND_LIMIT transitions are
\* configured and the fallback is a transition: no next phase
C14_Witness ==
    /\ probe.fn = "resolveNextPhaseTransition"
    /\ probe.done
    /\ probe.endedBy = "MAJORITY_VOTE"
    /\ Len(probe.transitions) = 2
    /\ Eligible = {}
    /\ probe.fallback.action = "TRANSITION"
    /\ probe.transition = NoTransition

\* the least r with r >= n * t, that is ceil(n * t), for 0 < t <= 1
CeilOf(n, t) == CHOOSE r \in 0..n : r * t.den >= n * t.num /\ (r - 1) * t.den < n * t.num

\* C15: over N ballots computeVotePass reports yesVotes = the number of YES
\* ballots, noVotesEffective = N - yesVotes if abstainCountsAsNo and the number
\* of NO ballots otherwise, and passed exactly when yesVotes reaches
\* floor(N/2) + 1 for the threshold 0.5 and ceil(N * threshold) otherwise.
C15_VotePass ==
    (probe.fn = "computeVotePass" /\ probe.done) =>
        LET N == Len(probe.ballots)
            t == probe.governance.majorityThreshold
            yes == Cardinality({i \in 1..N : probe.ballots[i] = "YES"})
            no == Cardinality({i \in 1..N : probe.ballots[i] = "NO"})
            requiredYes == IF 2 * t.num = t.den THEN (N \div 2) + 1 ELSE CeilOf(N, t)
        IN /\ probe.vote.yesVotes = yes
           /\ probe.vote.noVotesEffective =
                 IF probe.governance.abstainCountsAsNo THEN N - yes ELSE no
           /\ probe.vote.passed <=> yes >= requiredYes

\* four ballots, two of them YES and one ABSTAIN that does not count as NO,
\* at the threshold 0.5: not passed
C15_Witness ==
    /\ probe.fn = "computeVotePass"
    /\ probe.done
    /\ probe.ballots = <<"YES", "ABSTAIN", "YES", "NO">>
    /\ probe.governance.majorityThreshold = [num |-> 1, den |-> 2]
    /\ ~probe.governance.abstainCountsAsNo
    /\ probe.vote = [passed |-> FALSE, yesVotes |-> 2, noVotesEffective |-> 1]

\* the draft files documentation.draft.v<n>.md written so far
DraftFiles == {f \in files : f.name = "documentation.draft.md"}

\* the revision numbers carried by the events of one type
RevisionsOf(type) == {events[i].payload.revision : i \in EventIxs(type)}

\* the DOCUMENT_APPROVAL_VOTE_RESULT event of revision r
ResultOf(r) ==
    CHOOSE i \in EventIxs("DOCUMENT_APPROVAL_VOTE_RESULT") : events[i].payload.revision = r

\* the approval votes that passed
PassedRevisions ==
    {r \in RevisionsOf("DOCUMENT_APPROVAL_VOTE_RESULT") : events[ResultOf(r)].payload.passed}

\* the documentation loop has returned to run()
ReviewEnded == EventIxs("OUTPUT_ARTIFACT_WRITTEN") # {}

\* C16: with maxRevisionRounds = R the review loop writes the drafts
\* documentation.draft.v1 .. vN and calls the approval votes 1 .. N, one
\* DOCUMENT_APPROVAL_VOTE_CALLED and one DOCUMENT_APPROVAL_VOTE_RESULT each and
\* in this order, with N <= R + 1; once the loop has returned, N = R + 1 if no
\* vote passed and N = k if the k-th vote is the first that passed; and the
\* leader is asked for a revision only after the failed vote of a revision
\* r <= R.
C16_ReviewBounded ==
    LET R == cfg.documentationReview.maxRevisionRounds
        called == EventIxs("DOCUMENT_APPROVAL_VOTE_CALLED")
        results == EventIxs("DOCUMENT_APPROVAL_VOTE_RESULT")
        N == Cardinality(called)
    IN /\ Cardinality(DraftFiles) <= R + 1
       /\ \E n \in 0..(R + 1) : {f.n : f \in DraftFiles} = 1..n
       /\ N <= R + 1
       /\ RevisionsOf("DOCUMENT_APPROVAL_VOTE_CALLED") = 1..N
       /\ Cardinality(results) \in {N, N - 1}
       /\ RevisionsOf("DOCUMENT_APPROVAL_VOTE_RESULT") = 1..Cardinality(results)
       /\ \A i \in called : \A j \in results :
              events[i].payload.revision = events[j].payload.revision => i < j
       /\ \A i \in called : \A j \in results :
              events[i].payload.revision > events[j].payload.revision => j < i
       /\ ReviewEnded =>
              /\ Cardinality(results) = N
              /\ PassedRevisions = {} => N = R + 1
              /\ \A k \in PassedRevisions : N = k
       /\ pc = "awaitRevision" =>
              /\ doc.revision <= R
              /\ doc.revision \in RevisionsOf("DOCUMENT_APPROVAL_VOTE_RESULT")
              /\ ~events[ResultOf(doc.revision)].payload.passed
       /\ \A i \in EventIxs("DOCUMENT_REVISION_WRITTEN") :
              LET r == events[i].payload.revision - 1
              IN /\ r \in 1..R
                 /\ r \in RevisionsOf("DOCUMENT_APPROVAL_VOTE_RESULT")
                 /\ ResultOf(r) < i
                 /\ ~events[ResultOf(r)].payload.passed

\* with one revision round, the first vote fails, a revision is requested and
\* the second vote passes: exactly two pairs
C16_Witness ==
    /\ cfg.documentationReview.maxRevisionRounds = 1
    /\ ReviewEnded
    /\ PassedRevisions = {2}
    /\ Cardinality(EventIxs("DOCUMENT_APPROVAL_VOTE_CALLED")) = 2
    /\ Cardinality(DraftFiles) = 2

\* the files of one name written so far
FilesNamed(name) == {f \in files : f.name = name}

\* C17: documentation.md exists if and only if some document-approval vote
\* passed; it is written once and holds the content of the draft file of the
\* revision whose vote passed; and when it exists the loop has returned
\* approved = true with documentation.md as the output file, and neither
\* documentation.unapproved.md nor documentation.unresolved-blockers.json exists.
C17_ApprovedDocument ==
    /\ (FilesNamed("documentation.md") # {}) <=> (PassedRevisions # {})
    /\ Cardinality(FilesNamed("documentation.md")) <= 1
    /\ \A f \in FilesNamed("documentation.md") :
           /\ \E k \in PassedRevisions : \E d \in DraftFiles :
                  d.n = k /\ f.content = d.content
           /\ doc.approved
           /\ doc.outputDocumentFile = "documentation.md"
           /\ \A i \in EventIxs("OUTPUT_ARTIFACT_WRITTEN") : events[i].payload.approved
           /\ FilesNamed("documentation.unapproved.md") = {}
           /\ FilesNamed("documentation.unresolved-blockers.json") = {}

\* the second draft passes its vote and is published as documentation.md
C17_Witness ==
    /\ PassedRevisions = {2}
    /\ FilesNamed("documentation.md") = {File("documentation.md", 0, 2)}
    /\ File("documentation.draft.md", 2, 2) \in files
    /\ pc = "returned"

\* every approval vote the review allows was held and failed
AllVotesFailed ==
    /\ cfg.output.type = "documentation"
    /\ Cardinality(EventIxs("DOCUMENT_APPROVAL_VOTE_RESULT")) =
          cfg.documentationReview.maxRevisionRounds + 1
    /\ PassedRevisions = {}

\* the loop returned approved = false and left the two files of an
\* unapproved review, documentation.unapproved.md holding the last draft
UnapprovedOutcome ==
    /\ ~doc.approved
    /\ doc.outputDocumentFile = "documentation.unapproved.md"
    /\ \E d \in DraftFiles :
          /\ d.n = cfg.documentationReview.maxRevisionRounds + 1
          /\ FilesNamed("documentation.unapproved.md") =
                 {File("documentation.unapproved.md", 0, d.content)}
    /\ Cardinality(FilesNamed("documentation.unresolved-blockers.json")) = 1
    /\ FilesNamed("documentation.md") = {}
    /\ Cardinality(EventIxs("OUTPUT_ARTIFACT_WRITTEN")) = 1
    /\ \A i \in EventIxs("OUTPUT_ARTIFACT_WRITTEN") : ~events[i].payload.approved

\* run() has returned after SESSION_CLOSED and session.json, both reporting
\* documentationApproved = false
FinalizedUnapproved ==
    /\ pc = "returned"
    /\ UnapprovedOutcome
    /\ Cardinality(EventIxs("SESSION_CLOSED")) = 1
    /\ \A i \in EventIxs("SESSION_CLOSED") :
          /\ events[i].payload.documentationApproved = "false"
          /\ \A j \in EventIxs("OUTPUT_ARTIFACT_WRITTEN") : j < i
    /\ out.sessionJson.written
    /\ out.sessionJson.documentationApproved = "false"
    /\ out.result.returned
    /\ out.result.documentationApproved = "false"

\* what a session whose votes all failed shows at each step after the last vote
UnapprovedSteps ==
    AllVotesFailed =>
        /\ pc \in {"closing", "memory", "finalizing", "returned"}
        /\ UnapprovedOutcome
        /\ \A i \in EventIxs("SESSION_CLOSED") :
              events[i].payload.documentationApproved = "false"
        /\ pc = "returned" => FinalizedUnapproved

\* C18: when all maxRevisionRounds + 1 approval votes have failed, the loop
\* returns approved = false with documentation.unapproved.md (the last draft)
\* and documentation.unresolved-blockers.json written and
\* OUTPUT_ARTIFACT_WRITTEN (approved = false) appended, and the session goes
\* on to SESSION_CLOSED and session.json, both with documentationApproved =
\* false, and returns.
C18_UnapprovedFinalizes == []UnapprovedSteps /\ (AllVotesFailed ~> FinalizedUnapproved)

\* both votes of a review with one revision round failed and run() returned
C18_Witness ==
    /\ AllVotesFailed
    /\ cfg.documentationReview.maxRevisionRounds = 1
    /\ FinalizedUnapproved

\* the reviewers of revision r: the members whose approval ballot was not YES
ReviewersOf(r) ==
    {events[i].actorId : i \in {j \in EventIxs("VOTE_CAST") :
        /\ events[j].payload.voteType = "DOCUMENT_APPROVAL"
        /\ events[j].payload.revision = r
        /\ events[j].payload.ballot # "YES"}}

\* the feedback submitted on revision r
FeedbackOn(r) ==
    {i \in EventIxs("DOCUMENT_FEEDBACK_SUBMITTED") : events[i].payload.revision = r}

\* the number of critical blockers in a set of feedback events
RECURSIVE BlockersIn(_)
BlockersIn(S) ==
    IF S = {} THEN 0
    ELSE LET i == CHOOSE j \in S : TRUE
         IN events[i].payload.criticalBlockerCount + BlockersIn(S \ {i})

\* C19: when the review ends unapproved, documentation.unresolved-blockers.json
\* holds the critical blockers that the non-YES reviewers of the last failed
\* vote raised against the draft of that vote, the draft saved as
\* documentation.unapproved.md.
C19_UnresolvedBlockers ==
    \A f \in FilesNamed("documentation.unresolved-blockers.json") :
        \A u \in FilesNamed("documentation.unapproved.md") :
            \A d \in {x \in DraftFiles : x.content = u.content} :
                /\ {events[i].actorId : i \in FeedbackOn(d.n)} = ReviewersOf(d.n)
                /\ f.content = BlockersIn(FeedbackOn(d.n))

\* what the file holds in fact: the blockers of the feedback on the draft before
\* the last one, none when no revision round is allowed
C19_StaleBlockers ==
    \A f \in FilesNamed("documentation.unresolved-blockers.json") :
        \A u \in FilesNamed("documentation.unapproved.md") :
            \A d \in {x \in DraftFiles : x.content = u.content} :
                /\ FeedbackOn(d.n) = {}
                /\ ReviewersOf(d.n) # {}
                /\ f.content = BlockersIn(FeedbackOn(d.n - 1))

\* an unapproved review whose file lists two blockers raised against draft 1
\* while draft 2 was the one that failed last
C19_Witness ==
    /\ pc = "returned"
    /\ File("documentation.unapproved.md", 0, 2) \in files
    /\ File("documentation.unresolved-blockers.json", 0, 2) \in files
    /\ BlockersIn(FeedbackOn(1)) = 2

\* an unapproved review without a revision round: the file is empty although
\* a reviewer voted NO on the only draft
C19_WitnessEmpty ==
    /\ pc = "returned"
    /\ cfg.documentationReview.maxRevisionRounds = 0
    /\ File("documentation.unapproved.md", 0, 1) \in files
    /\ File("documentation.unresolved-blockers.json", 0, 0) \in files
    /\ ReviewersOf(1) # {}

\* the step of runDocumentationApprovalLoop that takes the collected feedback
\* and asks the leader for the revision
FeedbackHandedOver == pc = "feedback" /\ pc' = "awaitRevision"

\* the reviewers of the fan-out whose answer could not be parsed as JSON
UnparseableReviewers == {i \in 1..Len(fan.members) : fan.raw[i].k = "UNPARSEABLE"}

\* C20: the feedback of a reviewer whose document-feedback response was
\* unparseable, as handed to the leader for the revision, contains the
\* synthetic critical blocker B0.
C20_SyntheticBlocker ==
    [][FeedbackHandedOver =>
          \A i \in UnparseableReviewers :
              /\ doc'.latestFeedback[i].memberId = fan.members[i]
              /\ "B0" \in Range(doc'.latestFeedback[i].criticalBlockers)]_vars

\* what the code does: the envelope is an object without a criticalBlockers
\* array, so the unparseable answer becomes feedback without any blocker
C20_NoBlockerRecorded ==
    [][FeedbackHandedOver =>
          \A i \in UnparseableReviewers :
              /\ doc'.latestFeedback[i].memberId = fan.members[i]
              /\ doc'.latestFeedback[i].criticalBlockers = <<>>]_vars

\* feedback was handed to the leader with an entry of no blockers while the
\* review file counts none either
C20_Witness ==
    /\ pc = "awaitRevision"
    /\ \E i \in 1..Len(doc.latestFeedback) : doc.latestFeedback[i].criticalBlockers = <<>>
    /\ File("documentation.review.json", 1, 0) \in files

\* run() is past the point where the handoff file is written
HandoffDecided == pc \in {"memory", "finalizing", "returned"}

\* approved = !requireHumanApproval or the approval flag, as 1 or 0
ApprovedBit == IF ~cfg.execution.requireHumanApproval \/ options.approveExecution THEN 1 ELSE 0

\* C21: execution-handoff.json is written if and only if the leader summary
\* has requiresExecution = true and an executionBrief; its approved field, the
\* executionApproved of SESSION_CLOSED and the one of the session result all
\* equal (not execution.requireHumanApproval) or approveExecution.
C21_ExecutionHandoff ==
    /\ (FilesNamed("execution-handoff.json") # {}) <=>
          /\ HandoffDecided
          /\ summary.leaderSummary.requiresExecution
          /\ summary.leaderSummary.executionBrief
    /\ Cardinality(FilesNamed("execution-handoff.json")) <= 1
    /\ \A f \in FilesNamed("execution-handoff.json") : f.content = ApprovedBit
    /\ \A i \in EventIxs("SESSION_CLOSED") : events[i].payload.approved = (ApprovedBit = 1)
    /\ out.result.returned => out.result.executionApproved = (ApprovedBit = 1)

\* human approval is required and was not given: the handoff file is written
\* with approved = false
C21_Witness ==
    /\ pc = "returned"
    /\ cfg.execution.requireHumanApproval
    /\ ~options.approveExecution
    /\ \E f \in FilesNamed("execution-handoff.json") : f.content = 0
    /\ ~out.result.executionApproved

\* the records COUNCIL.json holds
CouncilRecords == memory.council.globalDecisions \o memory.council.crossAgentLessons

\* every member's MEMORY.json holds at most 80 records
MemberRecordsBounded ==
    memory.initialised =>
        \A m \in DOMAIN memory.members :
            Len(memory.members[m].records) <= MEMBER_RECORD_LIMIT

\* each of the two record lists of COUNCIL.json holds at most 80 records
CouncilListsBounded ==
    memory.initialised =>
        /\ Len(memory.council.globalDecisions) <= COUNCIL_RECORD_LIMIT
        /\ Len(memory.council.crossAgentLessons) <= COUNCIL_RECORD_LIMIT

\* C22: after any sequence of sessions every member's persisted record set
\* holds at most 80 records, and the records persisted for the council number
\* at most 80.
C22_MemoryBounded ==
    /\ MemberRecordsBounded
    /\ memory.initialised => Len(CouncilRecords) <= 80

\* a member's record set was cut: more than 80 records were there before the
\* prune of the last session, and 80 are kept
C22_Witness ==
    /\ memory.sessions > 30
    /\ \A m \in DOMAIN memory.members : Len(memory.members[m].records) = MEMBER_RECORD_LIMIT

\* COUNCIL.json with 80 decisions and the lesson on the parse fallback
C22_CouncilOverLimit ==
    /\ Len(memory.council.globalDecisions) = COUNCIL_RECORD_LIMIT
    /\ Len(memory.council.crossAgentLessons) = 1

\* the ids of the records in a list
IdsOf(records) == {records[i].id : i \in 1..Len(records)}

\* the members whose turns went through the parse fallback in the session
\* that is recorded by this step
FallbackMembers ==
    {m \in DOMAIN memory.members : countParseFallbacks(PlannedInput.events, m) > 0}

\* C23: after the close of a session in which a turn of a member used the
\* JSON parse fallback, the member's persisted records contain
\* risk_pattern:parse_fallback:<memberId>, whatever sessions were recorded
\* before, and the council memory contains the cross-agent lesson.
C23_ParseFallbackRecorded ==
    [][\A m \in FallbackMembers :
          /\ RecordId("risk_pattern:parse_fallback", 0, m)
                 \in IdsOf(memory'.members[m].records)
          /\ RecordId("lesson:json_parse_fallback", 0, 0)
                 \in IdsOf(memory'.council.crossAgentLessons)]_vars

\* the part that holds: the lesson is in COUNCIL.json, and the member's record
\* is there in each of the first 39 sessions, which leave fewer than 80 records
\* of importance 5
C23_RecordedWhileRoom ==
    [][\A m \in FallbackMembers :
          /\ RecordId("lesson:json_parse_fallback", 0, 0)
                 \in IdsOf(memory'.council.crossAgentLessons)
          /\ memory.sessions < 39 =>
                 RecordId("risk_pattern:parse_fallback", 0, m)
                     \in IdsOf(memory'.members[m].records)]_vars

\* 81 sessions are recorded, member 1 fell back in the last one, and its
\* MEMORY.json holds 80 records of importance 5 and no risk_pattern record
C23_Witness ==
    /\ memory.sessions = 81
    /\ 1 \in memory.plan.second.fallbacks
    /\ Len(memory.members[1].records) = MEMBER_RECORD_LIMIT
    /\ \A i \in 1..Len(memory.members[1].records) :
          memory.members[1].records[i].importance = 5
    /\ RecordId("lesson:json_parse_fallback", 0, 0)
          \in IdsOf(memory.council.crossAgentLessons)

\* the phases that were completed, read off the event log
CompletedPhases == {events[i].payload.passId : i \in EventIxs("PASS_COMPLETED")}

\* some completed phase has writeMemberMemory or writeCouncilMemory set
MemoryWriteRequested ==
    \E ph \in CompletedPhases :
        \/ requirePhase(cfg, ph).memoryPolicy.writeMemberMemory
        \/ requirePhase(cfg, ph).memoryPolicy.writeCouncilMemory

\* every MEMORY.json and COUNCIL.json is as MemoryStore.init left it
MemoryUntouched ==
    /\ memory.sessions = 0
    /\ \A m \in DOMAIN memory.members : memory.members[m] = SeedMemberMemory(m)
    /\ memory.council = SeedCouncilMemory

\* every MEMORY.json and COUNCIL.json holds the session
MemoryWritten ==
    /\ memory.sessions = 1
    /\ DOMAIN memory.members = Range(cfg.members)
    /\ \A m \in DOMAIN memory.members :
          /\ RecordId("decision", 1, 0) \in IdsOf(memory.members[m].records)
          /\ RecordId("outcome", 1, m) \in IdsOf(memory.members[m].records)
          /\ Len(memory.members[m].recentSessions) = 1
    /\ RecordId("decision", 1, 0) \in IdsOf(memory.council.globalDecisions)
    /\ Len(memory.council.sessions) = 1

\* C24: recordSession is invoked if and only if some completed phase has
\* writeMemberMemory or writeCouncilMemory set; when it is invoked every
\* member's memory and the council memory are written, otherwise none is; and
\* it happens after SESSION_CLOSED was appended and before session.json is
\* written.
C24_MemoryWrite ==
    /\ pc \in {"finalizing", "returned"} =>
          /\ out.recordSession <=> MemoryWriteRequested
          /\ IF MemoryWriteRequested THEN MemoryWritten ELSE MemoryUntouched
    /\ (memory.initialised /\ pc \notin {"finalizing", "returned"}) =>
          MemoryUntouched /\ ~out.recordSession
    /\ pc = "finalizing" =>
          /\ EventIxs("SESSION_CLOSED") # {}
          /\ ~out.sessionJson.written
    /\ out.sessionJson.written => pc = "returned"

\* a returned session whose only completed phase writes no memory, beside a
\* declared phase that would: nothing was written
C24_Witness ==
    /\ pc = "returned"
    /\ CompletedPhases = {1}
    /\ PhaseIds(cfg) = {1, 2}
    /\ requirePhase(cfg, 2).memoryPolicy.writeCouncilMemory
    /\ ~requirePhase(cfg, 1).memoryPolicy.writeCouncilMemory
    /\ MemoryUntouched
    /\ out.sessionJson.written

\* a returned session with both phases completed: memory was written
C24_WitnessWritten ==
    /\ pc = "returned"
    /\ CompletedPhases = {1, 2}
    /\ ~requirePhase(cfg, 1).memoryPolicy.writeCouncilMemory
    /\ MemoryWritten

\* the summaries of the six buckets of a prompt context
PromptSummaries(ctx) ==
    Range(ctx.constraints) \cup Range(ctx.keyDecisions) \cup Range(ctx.topRisks)
        \cup Range(ctx.openLoops) \cup Range(ctx.preferences) \cup Range(ctx.antiPatterns)

\* the record names one of the 25 most recent sessions (sessions are numbered
\* in the order they were recorded)
InRecentWindow(record) ==
    \E i \in 1..Len(record.evidence) :
        /\ record.evidence[i].sessionId > memory.sessions - PROMPT_CONTEXT_SESSION_WINDOW
        /\ record.evidence[i].sessionId <= memory.sessions

BucketsBounded(ctx) ==
    /\ Len(ctx.constraints) <= 4
    /\ Len(ctx.keyDecisions) <= 5
    /\ Len(ctx.topRisks) <= 4
    /\ Len(ctx.openLoops) <= 4
    /\ Len(ctx.preferences) <= 3
    /\ Len(ctx.antiPatterns) <= 3

Successors(c, ph) ==
    LET phase == requirePhase(c, ph) IN
    {phase.transitions[j].to : j \in 1..Len(phase.transitions)}
        \cup (IF phase.fallback.action = "TRANSITION"
               THEN {phase.fallback.transitionToPhaseId} ELSE {})

\* some declared phase cannot be reached from the entry phase: a proper subset
\* of the phases holds the entry phase and is closed under Successors
HasUnreachablePhase(c) ==
    \E T \in SUBSET PhaseIds(c) :
        /\ c.sessionPolicy.entryPhaseId \in T
        /\ T # PhaseIds(c)
        /\ \A ph \in T : Successors(c, ph) \subseteq T

\* nothing of a session exists: no event, no memory file, no session file
NoSessionActivity ==
    /\ events = <<>>
    /\ eventCounter = 0
    /\ memory = NoMemory
    /\ recorder = NoRecorder
    /\ files = {}
    /\ out = NoOut
    /\ fan = NoFan

\* C26: a config with a declared phase that is unreachable from entryPhaseId is
\* rejected by loadConfig before any session activity: the orchestrator is
\* never built or run, no event is appended and no memory or session file is
\* written.
C26_UnreachableRejected ==
    HasUnreachablePhase(cfg) =>
        /\ pc \in {"loading", "configError"}
        /\ NoSessionActivity

\* loadConfig has rejected a config whose unreachable phase itself leads back
\* to the entry phase
C26_Witness ==
    /\ pc = "configError"
    /\ NoSessionActivity
    /\ \E ph \in PhaseIds(cfg) :
          /\ ph \notin Reachable(cfg, {cfg.sessionPolicy.entryPhaseId})
          /\ cfg.sessionPolicy.entryPhaseId \in Successors(cfg, ph)

\* a config whose phases are all reachable, two of them only through a
\* fallback TRANSITION, is loaded and its session started
C26_WitnessAccepted ==
    /\ pc = "electing"
    /\ ~HasUnreachablePhase(cfg)
    /\ \A i \in 1..Len(cfg.phases) : cfg.phases[i].transitions = <<>>
    /\ Len(cfg.phases) = 3

\* an appendEvent call has returned and none is under way
AppendsCompleted ==
    /\ recorder.mode # ""
    /\ \E c \in DOMAIN recorder.calls : recorder.calls[c].stage = "done"
    /\ \A c \in DOMAIN recorder.calls : recorder.calls[c].stage \in {"idle", "calling", "done"}

\* events.json holds every event appended so far, in order
EventsOnDisk == recorder.eventsFile = [content |-> recorder.events, torn |-> FALSE]

\* C27: once appendEvent calls have completed, events.json holds every event
\* appended so far, in order, also when the appends were issued concurrently
\* by the workers of a fan-out.
C27_EventsDurable == AppendsCompleted => EventsOnDisk

\* as long as no two writes of events.json were in flight together, the
\* completed appends are on disk
C27_SequentialDurable == (AppendsCompleted /\ ~recorder.overlapped) => EventsOnDisk

\* all three ballot appends have returned and events.json lacks the ballot
\* appended last
C27_LostBallot ==
    /\ recorder.mode = "electing"
    /\ \A m \in Range(cfg.members) : recorder.calls[m].stage = "done"
    /\ ~recorder.eventsFile.torn
    /\ Len(recorder.eventsFile.content) < Len(recorder.events)

\* all three ballot appends have returned and events.json is not a
\* serialisation of any event list
C27_TornFile ==
    /\ recorder.mode = "electing"
    /\ \A m \in Range(cfg.members) : recorder.calls[m].stage = "done"
    /\ recorder.eventsFile.torn

\* the candidate a response counts for: the member it names, else the first
\* member in declaration order
CountedCandidate(raw) ==
    IF raw.k = "JSON" /\ raw.s = "candidate" /\ raw.n \in Range(cfg.members)
    THEN raw.n
    ELSE cfg.members[1]

CountedBallots == [i \in 1..Len(fan.members) |-> CountedCandidate(fan.raw[i])]

\* the tally is taken: electLeader goes on from the joined calls to the phases
LeaderIsElected == pc = "electing" /\ pc' = "phaseLoop"

\* C28: each election ballot counts for its candidateId when that is a member
\* id and otherwise, for an unparseable response or an unknown candidate, for
\* the first member in declaration order; the elected leader has the most
\* ballots, ties going to the smallest member id, and is a council member.
C28_LeaderTally ==
    [][LeaderIsElected =>
          /\ leaderId' \in Range(cfg.members)
          /\ \A c \in Range(cfg.members) :
                \/ Count(CountedBallots, {leaderId'}) > Count(CountedBallots, {c})
                \/ /\ Count(CountedBallots, {leaderId'}) = Count(CountedBallots, {c})
                   /\ leaderId' <= c
          /\ \A i \in 1..Len(fan.members) :
                \E e \in EventIxs("LEADER_ELECTION_BALLOT") :
                    /\ events[e].actorId = fan.members[i]
                    /\ events[e].payload.candidateId = CountedBallots[i]
          /\ events'[Len(events')].type = "LEADER_ELECTED"
          /\ events'[Len(events')].payload.candidateId = leaderId']_vars

\* a leader elected on a three-way tie made of an unparseable response (counted
\* for the first declared member) and two named members: the smallest id, not
\* the first declared member, leads
C28_Witness ==
    /\ pc = "phaseLoop"
    /\ phaseResults = <<>>
    /\ fan.kind = "leader_election"
    /\ \E i \in 1..Len(fan.raw) : fan.raw[i].k = "UNPARSEABLE"
    /\ \A c \in Range(cfg.members) : Count(CountedBallots, {c}) = 1
    /\ leaderId = 1
    /\ cfg.members[1] # 1

\* a leader elected by the ballots of an unknown candidate and an unparseable
\* response against one ballot naming another member
C28_WitnessFallbackWins ==
    /\ pc = "phaseLoop"
    /\ phaseResults = <<>>
    /\ fan.kind = "leader_election"
    /\ \E i, j \in 1..Len(fan.raw) :
          /\ fan.raw[i].k = "UNPARSEABLE"
          /\ fan.raw[j].k = "JSON" /\ fan.raw[j].n \notin Range(cfg.members)
    /\ leaderId = cfg.members[1]
    /\ Count(CountedBallots, {leaderId}) = 2

\* the fan-outs whose workers append their event themselves
WorkerEmittingFans == {"leader_election", "document_feedback"}

\* C29: after a non-parse model error in any call, also in one call of a
\* fan-out whose sibling calls are still outstanding, no further event is
\* appended to the event log.
C29_NoEventAfterError == [][pc = "rejected" => events' = events]_vars

\* after an error in a call whose fan-out appends only once it is joined,
\* nothing is appended
C29_JoinedFansStaySilent ==
    [][(pc = "rejected" /\ fan.kind \notin WorkerEmittingFans) => events' = events]_vars

\* a rejected leader election all of whose calls have come back, with the
\* ballots of the two members whose calls did not fail in the log
C29_StragglersRecorded ==
    /\ pc = "rejected"
    /\ fan.kind = "leader_election"
    /\ fan.pending = {}
    /\ Cardinality({i \in 1..Len(fan.raw) : fan.raw[i].k = "TRANSPORT"}) = 1
    /\ Cardinality(EventIxs("LEADER_ELECTION_BALLOT")) = Len(fan.members) - 1

ElectionOutstanding == fan.kind = "leader_election" /\ fan.pending # {}

\* every member has exactly one ballot in the log, all of them before the one
\* LEADER_ELECTED event, which precedes the first phase
BallotsThenLeader ==
    /\ \A m \in Range(cfg.members) :
          Cardinality({i \in EventIxs("LEADER_ELECTION_BALLOT") : events[i].actorId = m}) = 1
    /\ Cardinality(EventIxs("LEADER_ELECTED")) = 1
    /\ \A e \in EventIxs("LEADER_ELECTED") :
          /\ \A i \in EventIxs("LEADER_ELECTION_BALLOT") : i < e
          /\ \A i \in EventIxs("PASS_STARTED") : e < i

\* C30: no LEADER_ELECTION_BALLOT event is appended while an election call is
\* outstanding; once all calls have returned there is exactly one ballot event
\* per member, followed by exactly one LEADER_ELECTED event, before any phase
\* starts.
C30_ElectionJoined ==
    /\ ElectionOutstanding => EventIxs("LEADER_ELECTION_BALLOT") = {}
    /\ (leaderId # 0 /\ pc # "rejected") => BallotsThenLeader

\* once the leader is elected the ballots and the LEADER_ELECTED event are in
\* the log as described
C30_ElectedAfterBallots == (leaderId # 0 /\ pc # "rejected") => BallotsThenLeader

\* a ballot event is in the log while two election calls are outstanding
C30_EarlyBallot ==
    /\ ElectionOutstanding
    /\ pc = "electing"
    /\ Cardinality(fan.pending) = 2
    /\ Cardinality(EventIxs("LEADER_ELECTION_BALLOT")) = 1

\* the members other than the caller of the open motion, in turn order
OtherMembers == SelectSeq(ExpectedOrder, LAMBDA m : m # motion.calledBy)

\* the places in OtherMembers of the members who answered second = true
Seconding == {k \in 1..Len(OtherMembers) : RawOf(fan, OtherMembers[k]) = Json("true", 0)}

\* run() goes on from the joined seconding calls
SecondingResolved == pc = "seconding" /\ pc' \in {"turnLoop", "voting"}

\* the events ResolveSeconding appends: one SECONDING_RESPONSE per member other
\* than the caller, in turn order, then MOTION_SECONDED by the first of them
\* who seconded, or MOTION_NOT_SECONDED
SecondingRecorded ==
    LET n == Len(OtherMembers)
        last == events'[Len(events) + n + 1]
    IN
    /\ fan.members = OtherMembers
    /\ n = Len(cfg.members) - 1
    /\ Len(events') = Len(events) + n + 1
    /\ \A k \in 1..n :
          /\ events'[Len(events) + k].type = "SECONDING_RESPONSE"
          /\ events'[Len(events) + k].actorId = OtherMembers[k]
          /\ events'[Len(events) + k].actorId # motion.calledBy
          /\ events'[Len(events) + k].payload.second <=> k \in Seconding
    /\ last.payload.motionId = motion.motionId
    /\ IF Seconding = {}
       THEN last.type = "MOTION_NOT_SECONDED" /\ pc' = "turnLoop"
       ELSE /\ last.type = "MOTION_SECONDED"
            /\ pc' = "voting"
            /\ \E k \in Seconding :
                  /\ \A j \in Seconding : k <= j
                  /\ last.payload.secondedBy = OtherMembers[k]
                  /\ last.actorId = OtherMembers[k]

SecondingTypes == {"SECONDING_RESPONSE", "MOTION_SECONDED", "MOTION_NOT_SECONDED"}

\* a phase without seconding has no seconding events, and its motions are
\* followed at once by the vote
NoSecondingWhenNotRequired ==
    /\ \A i \in 1..Len(events) :
          events[i].type \in SecondingTypes =>
              requirePhase(cfg, events[i].payload.passId).governance.requireSeconding
    /\ \A c \in EventIxs("MOTION_CALLED") :
          ~requirePhase(cfg, events[c].payload.passId).governance.requireSeconding =>
              IF c = Len(events)
              THEN /\ fan.kind = "motion_vote"
                   /\ fan.members = ExpectedOrder
                   /\ pc \in {"voting", "rejected"}
              ELSE events[c + 1].type = "VOTE_CAST"

\* C31: when requireSeconding is true the seconding prompts go to every member
\* except the caller (N-1 SECONDING_RESPONSE events, none by the caller) and
\* MOTION_SECONDED names, as actor and as secondedBy, the first non-caller in
\* turn order who answered second = true, whichever call returned first; when
\* requireSeconding is false there are no seconding events and the motion goes
\* straight to the vote.
C31_Seconding ==
    [][(SecondingResolved => SecondingRecorded) /\ NoSecondingWhenNotRequired']_vars

\* a motion seconded by the last member in turn order, after the member before
\* declined, in a council whose turn order differs from the declaration order
C31_Witness ==
    /\ pc = "voting"
    /\ cfg.turnOrder # <<>>
    /\ cfg.turnOrder # cfg.members
    /\ events[Len(events)].type = "MOTION_SECONDED"
    /\ events[Len(events)].payload.secondedBy = OtherMembers[Len(OtherMembers)]
    /\ events[Len(events) - 1].type = "SECONDING_RESPONSE"
    /\ events[Len(events) - 1].payload.second
    /\ ~events[Len(events) - 2].payload.second

\* a motion called in a phase without seconding, with its ballots in the log
C31_WitnessStraightToVote ==
    /\ \E c \in EventIxs("MOTION_CALLED") :
          /\ ~requirePhase(cfg, events[c].payload.passId).governance.requireSeconding
          /\ c < Len(events)
          /\ events[c + 1].type = "VOTE_CAST"

\* the events that end a turn, and the event that precedes the first turn of a
\* round
TurnClosers == {"MESSAGE_CONTRIBUTED", "PASS_RECORDED", "MOTION_NOT_SECONDED", "VOTE_RESULT"}

\* C32: turn actions are strictly sequential.  A turn prompt is built from a
\* transcript that holds every event of the turns before it, the last of them
\* being the event that ended the previous turn (or ROUND_STARTED); nothing is
\* appended while the turn-action call is outstanding, and there is never more
\* than one such call.
C32_SequentialTurns ==
    fan.kind = "turn_action" =>
        /\ Len(fan.members) = 1
        /\ Cardinality(fan.pending) <= 1
        /\ fan.snap >= 1
        /\ events[fan.snap].type \in TurnClosers \cup {"ROUND_STARTED"}
        /\ \A i \in 1..Len(events) :
              /\ events[i].turnIndex < state.turnIndex => i <= fan.snap
              /\ i > fan.snap => events[i].turnIndex = state.turnIndex
        /\ fan.pending # {} =>
              /\ pc = "awaitTurn"
              /\ fan.snap = Len(events)
              /\ fan.members[1] = ExpectedOrder[loc.speakerIx]

\* the turn-action call of a speaker is outstanding, and the transcript of the
\* prompt ends with the result of the vote on the motion of the speaker before
C32_Witness ==
    /\ pc = "awaitTurn"
    /\ fan.kind = "turn_action"
    /\ fan.pending # {}
    /\ loc.speakerIx > 1
    /\ events[fan.snap].type = "VOTE_RESULT"
    /\ events[fan.snap].turnIndex = state.turnIndex - 1
    /\ \E i \in EventIxs("MOTION_SECONDED") : events[i].turnIndex = state.turnIndex - 1

\* the events that settle the motion called by event c
ResolutionsOf(c) ==
    {i \in EventIxs("MOTION_NOT_SECONDED") \cup EventIxs("VOTE_RESULT") :
        events[i].payload.motionId = events[c].payload.motionId}

\* the ballots cast on the motion called by event c
BallotsOn(c) ==
    {i \in EventIxs("VOTE_CAST") : events[i].payload.motionId = events[c].payload.motionId}

\* the motions called and not yet settled
OpenMotions == {c \in EventIxs("MOTION_CALLED") : ResolutionsOf(c) = {}}

\* the motion called by event c is settled by event r within its turn
ResolvedInTurn(c, r) ==
    /\ c < r
    /\ events[r].round = events[c].round
    /\ events[r].turnIndex = events[c].turnIndex
    /\ \A t \in EventIxs("TURN_ACTION") : t < c \/ r < t
    /\ events[r].type = "VOTE_RESULT" =>
          /\ Cardinality(BallotsOn(c)) = Len(cfg.members)
          /\ \A m \in Range(cfg.members) :
                \E i \in BallotsOn(c) : events[i].actorId = m
          /\ \A i \in BallotsOn(c) : c < i /\ i < r
    /\ events[r].type = "MOTION_NOT_SECONDED" => BallotsOn(c) = {}

\* C33: a motion resolves within the turn in which it was called.  Every
\* MOTION_CALLED is followed, before the next TURN_ACTION and with the same
\* round and turnIndex, by exactly one MOTION_NOT_SECONDED or VOTE_RESULT for
\* its motionId, the VOTE_RESULT after exactly one VOTE_CAST per member, the
\* caller included; at most one motion is open at any time.
C33_MotionResolvesInTurn ==
    /\ Cardinality(OpenMotions) <= 1
    /\ \A c \in EventIxs("MOTION_CALLED") :
          /\ Cardinality(ResolutionsOf(c)) <= 1
          /\ \A r \in ResolutionsOf(c) : ResolvedInTurn(c, r)
          /\ c \in OpenMotions =>
                /\ pc \in {"seconding", "voting", "rejected"}
                /\ \A t \in EventIxs("TURN_ACTION") \cup EventIxs("MOTION_CALLED") : t <= c
                /\ events[c].payload.motionId = motion.motionId

\* a finished session with a motion settled by a vote in which its caller cast
\* a ballot, in a phase with seconding
C33_Witness ==
    /\ pc = "returned"
    /\ \E c \in EventIxs("MOTION_CALLED") :
          /\ \E r \in ResolutionsOf(c) : events[r].type = "VOTE_RESULT"
          /\ \E i \in BallotsOn(c) : events[i].actorId = events[c].actorId
          /\ \E i \in EventIxs("MOTION_SECONDED") :
                events[i].payload.motionId = events[c].payload.motionId
          /\ \E t \in EventIxs("TURN_ACTION") : t > c

\* the revisions whose approval vote failed with a revision round left
FailedRevisions ==
    {r \in RevisionsOf("DOCUMENT_APPROVAL_VOTE_RESULT") :
        /\ ~events[ResultOf(r)].payload.passed
        /\ r <= cfg.documentationReview.maxRevisionRounds}

\* the members who voted YES on revision r
ApproversOf(r) ==
    {events[i].actorId : i \in {j \in EventIxs("VOTE_CAST") :
        /\ events[j].payload.voteType = "DOCUMENT_APPROVAL"
        /\ events[j].payload.revision = r
        /\ events[j].payload.ballot = "YES"}}

ReviewFileWritten(r) == \E f \in FilesNamed("documentation.review.json") : f.n = r

\* at most one feedback event per reviewer of revision r, none by anyone else
FeedbackByReviewers(r) ==
    /\ \A i \in FeedbackOn(r) : events[i].actorId \in ReviewersOf(r)
    /\ \A i, j \in FeedbackOn(r) : events[i].actorId = events[j].actorId => i = j

\* C34: after a failed document-approval vote on revision r <= maxRevisionRounds
\* feedback is requested from exactly the members whose ballot was not YES
\* (NO or ABSTAIN, the parse-fallback ABSTAIN included) and from no YES voter;
\* that set is never empty, and exactly one DOCUMENT_FEEDBACK_SUBMITTED event
\* per reviewer is in the log before documentation.review.v<r>.json is written.
C34_FeedbackFromNonApprovers ==
    /\ \A r \in FailedRevisions :
          /\ ReviewersOf(r) # {}
          /\ Cardinality(ApproversOf(r)) < (Len(cfg.members) \div 2) + 1
          /\ FeedbackByReviewers(r)
          /\ r = doc.revision =>
                \/ pc = "rejected"
                \/ ReviewFileWritten(r)
                \/ /\ pc = "feedback"
                   /\ fan.kind = "document_feedback"
                   /\ Range(fan.members) = ReviewersOf(r)
                   /\ Range(fan.members) \cap ApproversOf(r) = {}
                   /\ fan.members = SelectSeq(ExpectedOrder, LAMBDA m : m \in ReviewersOf(r))
          /\ ReviewFileWritten(r) =>
                {events[i].actorId : i \in FeedbackOn(r)} = ReviewersOf(r)
    /\ \A f \in FilesNamed("documentation.review.json") : f.n \in FailedRevisions
    /\ \A i \in EventIxs("DOCUMENT_FEEDBACK_SUBMITTED") :
          events[i].payload.revision \in FailedRevisions

\* the review file of revision 1 is written after a vote with one YES ballot,
\* one NO ballot and one unparseable answer counted as ABSTAIN: the two
\* members who did not approve gave feedback
C34_Witness ==
    /\ ReviewFileWritten(1)
    /\ 1 \in FailedRevisions
    /\ Cardinality(ApproversOf(1)) = 1
    /\ Cardinality(ReviewersOf(1)) = 2
    /\ Cardinality(FeedbackOn(1)) = 2
    /\ \E i \in EventIxs("VOTE_CAST") :
          /\ events[i].payload.voteType = "DOCUMENT_APPROVAL"
          /\ events[i].payload.revision = 1
          /\ events[i].payload.ballot = "ABSTAIN"
          /\ events[i].payload.rationale = "Model JSON parse error"

\* the leader-summary call has returned an answer that is not JSON, or JSON
\* without a non-empty summaryMarkdown
UnusableSummaryReturned ==
    /\ fan.kind = "leader_summary"
    /\ fan.pending = {}
    /\ RawOf(fan, leaderId) \in {Unparseable, Json("invalid", 0)}

\* C35: when the leader-summary response is unparseable or has no non-empty
\* summaryMarkdown the session does not abort; the summary is the terminal
\* phase resolution with requiresExecution = false, and no
\* execution-handoff.json is written, whatever approveExecution and
\* requireHumanApproval are.
C35_SummaryFallback ==
    UnusableSummaryReturned =>
        /\ pc \in {"closing", "memory", "finalizing", "returned"}
        /\ Cardinality(EventIxs("LEADER_SUMMARY")) = 1
        /\ \A i \in EventIxs("LEADER_SUMMARY") :
              /\ events[i].payload.resolution = summary.terminalResult.finalResolution
              /\ ~events[i].payload.requiresExecution
        /\ summary.leaderSummary.finalResolution = summary.terminalResult.finalResolution
        /\ ~summary.leaderSummary.requiresExecution
        /\ FilesNamed("execution-handoff.json") = {}
        /\ out.result.returned =>
              out.result.finalResolution = summary.terminalResult.finalResolution

\* a session whose leader summary was unparseable has returned, with
\* approveExecution set and no human approval required
C35_Witness ==
    /\ UnusableSummaryReturned
    /\ RawOf(fan, leaderId) = Unparseable
    /\ pc = "returned"
    /\ out.result.returned
    /\ options.approveExecution
    /\ ~cfg.execution.requireHumanApproval
    /\ out.result.executionApproved

\* the same with a JSON answer that has no summaryMarkdown, under required
\* human approval
C35_WitnessNoSummary ==
    /\ UnusableSummaryReturned
    /\ RawOf(fan, leaderId) = Json("invalid", 0)
    /\ pc = "returned"
    /\ cfg.execution.requireHumanApproval

\* const memberMemory = phaseConfig.memoryPolicy.readMemberMemory
\*     ? await memoryStore.readMemberMemory(speaker.id) : "... disabled ..."
TurnReadsMemory ==
    /\ pc = "awaitTurn"
    /\ fan.kind = "turn_action"
    /\ loc.phaseId \in PhaseIds(cfg)
    /\ requirePhase(cfg, loc.phaseId).memoryPolicy.readMemberMemory

\* the snapshot of member m left by the previous session close, as
\* MemoryStore.init found it (no earlier session: the seed)
SnapshotAtInit(m) ==
    readMemberMemory(MemoryStoreInit(NoMemory, Range(cfg.members)), m)

\* the session is between MemoryStore.init and recordSession
MidSession == memory.initialised /\ pc \notin {"start", "loading", "memory", "idle"}

\* C36: there are no mid-session memory writes: between the initialisation
\* of the memory store and recordSession at session close no member or
\* council memory document changes, so every turn prompt that reads member
\* memory sees the snapshot of the previous session close.
C36_NoMidSessionWrites ==
    [][/\ MidSession => memory' = memory
       /\ (MidSession /\ TurnReadsMemory) =>
              readMemberMemory(memory, fan.members[1]) = SnapshotAtInit(fan.members[1])
       /\ (MidSession /\ pc # "finalizing" /\ pc # "returned") =>
              \A m \in DOMAIN memory.members :
                  readMemberMemory(memory, m) = SnapshotAtInit(m)]_vars

\* the third turn of a session reads its speaker's memory
C36_Witness ==
    /\ MidSession
    /\ TurnReadsMemory
    /\ state.turnIndex >= 3
    /\ readMemberMemory(memory, fan.members[1]) = SnapshotAtInit(fan.members[1])

\* the session close wrote the memory the turns had read unchanged
C36_WitnessWrittenAtClose ==
    /\ pc = "finalizing"
    /\ state.turnIndex >= 3
    /\ MemoryWritten
    /\ \E m \in DOMAIN memory.members : readMemberMemory(memory, m) # SnapshotAtInit(m)

\* the events appended after state.phase = "CLOSED": LEADER_SUMMARY and all
\* that follow it
AfterClosedTag ==
    {i \in 1..Len(events) : \E j \in EventIxs("LEADER_SUMMARY") : j <= i}

\* C37: every event appended after the phase tag was set to CLOSED carries
\* the tag CLOSED (LEADER_SUMMARY, the document-review events,
\* OUTPUT_ARTIFACT_WRITTEN, SESSION_CLOSED); SESSION_CLOSED is tagged CLOSED
\* in every session. Refuted for output.type = documentation.
C37_ClosedTagSticks ==
    /\ \A i \in AfterClosedTag : events[i].phase = "CLOSED"
    /\ \A i \in EventIxs("SESSION_CLOSED") : events[i].phase = "CLOSED"

\* what the code keeps: LEADER_SUMMARY is tagged CLOSED, and so is every later
\* event of a session without documentation output
C37_ClosedTagWithoutReview ==
    /\ \A i \in EventIxs("LEADER_SUMMARY") : events[i].phase = "CLOSED"
    /\ cfg.output.type = "none" => \A i \in AfterClosedTag : events[i].phase = "CLOSED"
    /\ \A i \in AfterClosedTag : events[i].phase \in {"CLOSED", "VOTING", "DISCUSSION"}

\* a documentation session has closed with SESSION_CLOSED tagged DISCUSSION
C37_ClosedTaggedDiscussion ==
    /\ pc = "returned"
    /\ cfg.output.type = "documentation"
    /\ \E i \in EventIxs("SESSION_CLOSED") : events[i].phase = "DISCUSSION"
    /\ \E i \in EventIxs("DOCUMENT_APPROVAL_VOTE_CALLED") : events[i].phase = "VOTING"

C38_AgreesUnlessForced ==
    /\ (out.sessionJson.written /\ forcedStopReason.kind = "") =>
          (out.sessionJson.winningMotion # 0 <=> out.sessionJson.endedBy = "MAJORITY_VOTE")
    /\ out.sessionJson.written =>
          out.sessionJson.winningMotion = phaseResults[Len(phaseResults)].winningMotion
    /\ (out.sessionJson.written /\ forcedStopReason.kind # "") =>
          out.sessionJson.endedBy = "ROUND_LIMIT"

\* session.json of a force-stopped session: endedBy ROUND_LIMIT beside the
\* winning motion of the last phase
C38_ForcedStopKeepsMotion ==
    /\ out.sessionJson.written
    /\ out.sessionJson.transitionLimitReached
    /\ out.sessionJson.endedBy = "ROUND_LIMIT"
    /\ out.sessionJson.winningMotion # 0

\* computeVotePass has been applied to the ballots and governance of the probe
VotePassComputed == probe.fn = "computeVotePass" /\ probe.done

\* the same governance with abstainCountsAsNo set to flag
WithAbstainCountsAsNo(flag) == [probe.governance EXCEPT !.abstainCountsAsNo = flag]

\* C39: for any ballots and threshold the passed result of computeVotePass is
\* the same for abstainCountsAsNo = true and false; an ABSTAIN never counts
\* toward YES, the flag changes only noVotesEffective, and
\* yesVotes + noVotesEffective = N whenever abstainCountsAsNo is true.
C39_AbstainFlagOnlyCountsNo ==
    VotePassComputed =>
        LET n == Len(probe.ballots)
            asNo == computeVotePass(probe.ballots, WithAbstainCountsAsNo(TRUE))
            asAbstain == computeVotePass(probe.ballots, WithAbstainCountsAsNo(FALSE))
        IN /\ probe.vote \in {asNo, asAbstain}
           /\ asNo.passed = asAbstain.passed
           /\ asNo.yesVotes = asAbstain.yesVotes
           /\ probe.vote.yesVotes = Count(probe.ballots, {"YES"})
           /\ asNo.yesVotes + asNo.noVotesEffective = n
           /\ asAbstain.noVotesEffective = Count(probe.ballots, {"NO"})
           /\ probe.governance.abstainCountsAsNo =>
                 probe.vote.yesVotes + probe.vote.noVotesEffective = n

\* a vote with an abstention passes although abstentions count as NO
C39_Witness ==
    /\ VotePassComputed
    /\ probe.governance.abstainCountsAsNo
    /\ "ABSTAIN" \in Range(probe.ballots)
    /\ probe.vote.passed
    /\ probe.vote.noVotesEffective > Count(probe.ballots, {"NO"})

\* a vote with an abstention fails although abstentions do not count as NO
\* and no member voted NO
C39_WitnessFailsWithoutNo ==
    /\ VotePassComputed
    /\ ~probe.governance.abstainCountsAsNo
    /\ "ABSTAIN" \in Range(probe.ballots)
    /\ ~probe.vote.passed
    /\ probe.vote.noVotesEffective = 0

\* run() has returned its SessionResult
SessionCompleted == pc = "returned" /\ out.result.returned

\* the events of the types in T, in log order
EventsOfTypes(T) == SelectSeq(events, LAMBDA e : e.type \in T)

\* PASS_STARTED and PASS_COMPLETED alternate, pass by pass, and end completed
PassesBracketed ==
    LET marks == EventsOfTypes({"PASS_STARTED", "PASS_COMPLETED"})
    IN /\ Len(marks) % 2 = 0
       /\ \A k \in 1..Len(marks) :
             IF k % 2 = 1
             THEN marks[k].type = "PASS_STARTED"
             ELSE /\ marks[k].type = "PASS_COMPLETED"
                  /\ marks[k].payload.passId = marks[k - 1].payload.passId

\* C40: in a completed session SESSION_STARTED is the first event,
\* LEADER_ELECTED occurs once and before the first PASS_STARTED, every
\* PASS_STARTED is matched by exactly one PASS_COMPLETED before the next
\* PASS_STARTED, and SESSION_CLOSED occurs once and is the last event.
C40_SessionBracketing ==
    SessionCompleted =>
        /\ EventIxs("SESSION_STARTED") = {1}
        /\ Cardinality(EventIxs("LEADER_ELECTED")) = 1
        /\ EventIxs("PASS_STARTED") # {}
        /\ \A i \in EventIxs("LEADER_ELECTED"), j \in EventIxs("PASS_STARTED") : i < j
        /\ PassesBracketed
        /\ EventIxs("SESSION_CLOSED") = {Len(events)}
        /\ Len(EventsOfTypes({"PASS_STARTED"})) = Len(phaseResults)

\* a session of two passes, the first closed by a vote and the second by its
\* round limit, has completed
C40_Witness ==
    /\ SessionCompleted
    /\ Cardinality(EventIxs("PASS_STARTED")) >= 2
    /\ EventIxs("ROUND_LIMIT_REACHED") # {}
    /\ \E i \in EventIxs("PASS_COMPLETED") : events[i].payload.endedBy = "MAJORITY_VOTE"
    /\ EventIxs("SESSION_CLOSED") = {Len(events)}

====
